---------------------------- MODULE Spec2Model ----------------------------
(***************************************************************************)
(* A model of the larbatch utilities (python/project_utilities.py and      *)
(* python/larbatch_utilities.py):                                           *)
(*   - the SAM dimension evaluator: expandDefnames, tokenizeRPN, listFiles *)
(*     and the process-wide cache samcache;                                 *)
(*   - the ifdh wrappers (ifdh_cp ... ifdh_rm), addLayerTwo and posix_cp,  *)
(*     as step machines over the wrapper, its helper thread and the        *)
(*     subprocess;                                                          *)
(*   - the dCache path conversions dcache_path, xrootd_uri, gridftp_uri;   *)
(*   - get_experiment, get_ppid and check_running, parseInt,               *)
(*     create_limited_dataset, use_token_auth and start_project, each as   *)
(*     a function of its arguments and of what it reads;                   *)
(*   - the branch tables of scripts/rootstat.py.                           *)
(* Python strings are TLA+ strings; the string methods the code uses       *)
(* (find, replace, split, startswith, slices) are operators over them.     *)
(***************************************************************************)
EXTENDS Integers, Sequences, FiniteSets, TLC

(***************************************************************************)
(* Python string methods.                                                  *)
(***************************************************************************)

\* s[i:] with a 0-based index i (the slice is empty when i >= len(s)).
SliceFrom(s, i) == IF i >= Len(s) THEN "" ELSE SubSeq(s, i + 1, Len(s))

\* s[:i] with a 0-based index i.
SliceTo(s, i) == IF i <= 0 THEN "" ELSE IF i >= Len(s) THEN s ELSE SubSeq(s, 1, i)

\* s.startswith(p)
StartsWith(s, p) == Len(s) >= Len(p) /\ SliceTo(s, Len(p)) = p

RECURSIVE FindFrom(_, _, _)
FindFrom(s, sub, i) ==
    IF i + Len(sub) > Len(s) THEN -1
    ELSE IF SubSeq(s, i + 1, i + Len(sub)) = sub THEN i
    ELSE FindFrom(s, sub, i + 1)

\* s.find(sub): the 0-based index of the first occurrence, -1 when there is none.
Find(s, sub) == FindFrom(s, sub, 0)

\* s.replace(old, new): every non-overlapping occurrence, left to right.
RECURSIVE Replace(_, _, _)
Replace(s, old, new) ==
    LET n == Find(s, old)
    IN  IF n < 0 THEN s
        ELSE SliceTo(s, n) \o new \o Replace(SliceFrom(s, n + Len(old)), old, new)

RECURSIVE SplitFrom(_, _, _, _)
SplitFrom(s, i, word, acc) ==
    LET done == IF word = "" THEN acc ELSE Append(acc, word)
    IN  IF i > Len(s) THEN done
        ELSE LET c == SubSeq(s, i, i)
             IN  SplitFrom(s, i + 1,
                           IF c = " " THEN "" ELSE word \o c,
                           IF c = " " THEN done ELSE acc)

\* s.split(): the words between runs of whitespace (the model's strings hold
\* no whitespace other than the blank).
Split(s) == SplitFrom(s, 1, "", <<>>)

\* The last element of a non-empty list, and the list without it (list.pop()).
Last(q) == q[Len(q)]
Front(q) == SubSeq(q, 1, Len(q) - 1)

(***************************************************************************)
(* tokenizeRPN (project_utilities.py).  The result is a record             *)
(* [rpn, exc]: the returned list, or the exception the call raised.        *)
(***************************************************************************)

NoExc == ""
ExcIndex == "IndexError"
ExcParent == "RuntimeError('isparentof: parse error')"
ExcChild == "RuntimeError('ischildof: parse error')"

\* The tokens at which the unwinding of an operator stops (line 756).
OrStopTokens == {"(", "isparentof:(", "ischildof:"}

\* Lines 753-760: pop operators off temp until a grouping symbol is on top.
RECURSIVE OrUnwind(_, _)
OrUnwind(temp, result) ==
    IF Len(temp) = 0 THEN [temp |-> temp, result |-> result]
    ELSE LET last == Last(temp)
         IN  IF last \in OrStopTokens
             THEN [temp |-> temp, result |-> result]
             ELSE OrUnwind(Front(temp), Append(result, last))

\* Lines 769-787: pop temp until the matching opening symbol is found.
\* Lines 775-778 and 781-784: the item before the closing parenthesis becomes
\* the content of the isxxx:( group, which an operator may not end.
CloseGroup(open, rest, result, exc) ==
    IF Len(result) = 0 \/ Last(result) = "or" \/ Last(result) = "minus"
    THEN [temp |-> rest, result |-> result, exc |-> exc]
    ELSE [temp |-> rest,
          result |-> Append(Front(result), open \o " " \o Last(result) \o " )"),
          exc |-> NoExc]

RECURSIVE CloseUnwind(_, _)
CloseUnwind(temp, result) ==
    IF Len(temp) = 0 THEN [temp |-> temp, result |-> result, exc |-> ExcIndex]
    ELSE LET last == Last(temp)
             rest == Front(temp)
         IN  IF last = "("
             THEN [temp |-> rest, result |-> result, exc |-> NoExc]
             ELSE IF last = "isparentof:("
             THEN CloseGroup(last, rest, result, ExcParent)
             ELSE IF last = "ischildof:("
             THEN CloseGroup(last, rest, result, ExcChild)
             ELSE CloseUnwind(rest, Append(result, last))

\* result with the pending expression appended (lines 742-744 and alike).
Flush(result, exp) == IF Len(exp) > 0 THEN Append(result, exp) ELSE result

\* Lines 741-793: the body of the loop over the words of head, for one word;
\* t is [temp, result, exp, exc].
TokenStep(word, t) ==
    LET flushed == Flush(t.result, t.exp)
    IN  IF word = "(" \/ word = "isparentof:(" \/ word = "ischildof:("
        THEN [temp |-> Append(t.temp, word), result |-> flushed, exp |-> "",
              exc |-> NoExc]
        ELSE IF word = "or" \/ word = "minus"
        THEN LET u == OrUnwind(t.temp, flushed)
             IN  [temp |-> Append(u.temp, word), result |-> u.result, exp |-> "",
                  exc |-> NoExc]
        ELSE IF word = ")"
        THEN LET u == CloseUnwind(t.temp, flushed)
             IN  [temp |-> u.temp, result |-> u.result, exp |-> "", exc |-> u.exc]
        ELSE [t EXCEPT !.exp = IF Len(t.exp) = 0 THEN word ELSE t.exp \o " " \o word]

\* Line 739: the loop over the words of head, left when a word raises.
RECURSIVE TokenLoop(_, _, _)
TokenLoop(words, i, t) ==
    IF i > Len(words) \/ t.exc # NoExc THEN t
    ELSE TokenLoop(words, i + 1, TokenStep(words[i], t))

\* Lines 799-800: the remaining items of temp, popped onto result.
RECURSIVE Drain(_, _)
Drain(temp, result) ==
    IF Len(temp) = 0 THEN result ELSE Drain(Front(temp), Append(result, Last(temp)))

\* Lines 722-737: head with parentheses spaced out, but not after isxxx:.
SpacedHead(head) ==
    Replace(Replace(Replace(Replace(head, "(", " ( "), ")", " ) "),
                    "isparentof: ", "isparentof:"),
            "ischildof: ", "ischildof:")

\* Lines 795-807: what the loop left is cleared and the tail appended.
TokenizeEnd(t, tail) ==
    IF t.exc # NoExc THEN [rpn |-> <<>>, exc |-> t.exc]
    ELSE [rpn |-> Flush(Drain(t.temp, Flush(t.result, t.exp)), tail), exc |-> NoExc]

\* Lines 714-739: the words of head (dim before 'with limit') are looped over.
TokenizeAt(dim, n) ==
    TokenizeEnd(TokenLoop(Split(SpacedHead(IF n >= 0 THEN SliceTo(dim, n) ELSE dim)), 1,
                          [temp |-> <<>>, result |-> <<>>, exp |-> "", exc |-> NoExc]),
                IF n >= 0 THEN SliceFrom(dim, n) ELSE "")

tokenizeRPN(dim) == TokenizeAt(dim, Find(dim, "with limit"))

(***************************************************************************)
(* The SAM service, as listFiles sees it: samweb().listFiles(item) returns *)
(* the files of a dimension it knows and raises for any other string;      *)
(* samweb().descDefinitionDict(name) describes a dataset definition.       *)
(***************************************************************************)

ExcSam == "samweb exception"
ExcValue == "ValueError"
ExcKey == "KeyError"

\* The dimension strings SAM can evaluate.
SamKnown == {"a", "b", "c", "isparentof:( a )", "ischildof:( b )", "defname: one"}

\* The files SAM holds for a dimension it knows.
SamFiles(item) ==
    CASE item = "a" -> {1, 2}
      [] item = "b" -> {2, 3}
      [] item = "c" -> {3}
      [] item = "isparentof:( a )" -> {3}
      [] item = "ischildof:( b )" -> {1}
      [] item = "defname: one" -> {1, 2}
      [] OTHER -> {}

\* The dataset definitions SAM holds, by name, with their dimensions.
DefNames == {"one", "two", "three", "void"}
DefDimensions(name) ==
    CASE name = "one" -> "a"
      [] name = "two" -> "a or b"
      [] name = "three" -> "defname: one minus b"
      [] OTHER -> "c minus b"

\* The files of a definition, as SAM resolves it.
DefFiles(name) ==
    CASE name = "one" -> SamFiles("defname: one")
      [] name = "two" -> SamFiles("a") \union SamFiles("b")
      [] name = "three" -> SamFiles("defname: one") \ SamFiles("b")
      [] OTHER -> SamFiles("c") \ SamFiles("b")

\* Every file of the catalogue.
Files == UNION {SamFiles(i) : i \in SamKnown}

(***************************************************************************)
(* expandDefnames (project_utilities.py lines 670-696).                    *)
(***************************************************************************)

\* Lines 677-694: the body of the loop over the words, for one word; e is
\* [dim, isdefname, exc], dim being the result so far.
ExpandStep(word, e) ==
    IF e.isdefname
    THEN IF word \notin DefNames
         THEN [e EXCEPT !.isdefname = FALSE, !.exc = ExcSam]
         ELSE LET descdim == DefDimensions(word)
              IN  IF Find(descdim, " or ") < 0 /\ Find(descdim, " minus ") < 0
                  THEN [e EXCEPT !.isdefname = FALSE,
                                 !.dim = e.dim \o " defname: " \o word]
                  ELSE [e EXCEPT !.isdefname = FALSE,
                                 !.dim = e.dim \o " ( " \o descdim \o " )"]
    ELSE IF word = "defname:"
         THEN [e EXCEPT !.isdefname = TRUE]
         ELSE [e EXCEPT !.dim = e.dim \o " " \o word]

RECURSIVE ExpandLoop(_, _, _)
ExpandLoop(words, i, e) ==
    IF i > Len(words) \/ e.exc # NoExc THEN e
    ELSE ExpandLoop(words, i + 1, ExpandStep(words[i], e))

expandDefnames(dim) ==
    ExpandLoop(Split(dim), 1, [dim |-> "", isdefname |-> FALSE, exc |-> NoExc])

\* listFiles lines 835-841: expand until the dimension no longer changes.
RECURSIVE ExpandAll(_)
ExpandedTo(e, dim) == IF e.exc # NoExc \/ e.dim = dim THEN e ELSE ExpandAll(e.dim)
ExpandAll(dim) == ExpandedTo(expandDefnames(dim), dim)

(***************************************************************************)
(* listFiles (project_utilities.py lines 820-901).  Python sets are        *)
(* objects: heap is the list of the live set objects, and samcache and the *)
(* evaluation stack hold references (indices into heap), so that a set     *)
(* changed in place is changed for every holder of the reference.          *)
(***************************************************************************)

DigitValue(c) ==
    CASE c = "0" -> 0 [] c = "1" -> 1 [] c = "2" -> 2 [] c = "3" -> 3 [] c = "4" -> 4
      [] c = "5" -> 5 [] c = "6" -> 6 [] c = "7" -> 7 [] c = "8" -> 8 [] c = "9" -> 9
      [] OTHER -> -1

RECURSIVE DigitsFrom(_, _, _)
DigitsFrom(s, i, acc) ==
    IF i > Len(s) THEN acc
    ELSE LET d == DigitValue(SubSeq(s, i, i))
         IN  IF d < 0 THEN -1 ELSE DigitsFrom(s, i + 1, 10 * acc + d)

\* s.strip()
RECURSIVE Strip(_)
Strip(s) ==
    LET head == Len(s) > 0 /\ SubSeq(s, 1, 1) = " "
        tail == Len(s) > 0 /\ SubSeq(s, Len(s), Len(s)) = " "
    IN  IF ~head /\ ~tail THEN s
        ELSE Strip(IF head THEN SliceFrom(s, 1) ELSE SliceTo(s, Len(s) - 1))

\* int(s): [ok, val]; not ok stands for ValueError.
Signed(neg, v) == [ok |-> v >= 0, val |-> IF neg THEN 0 - v ELSE v]
Unsigned(neg, d) == Signed(neg, IF Len(d) = 0 THEN -1 ELSE DigitsFrom(d, 1, 0))
Stripped(t) ==
    IF Len(t) > 0 /\ SubSeq(t, 1, 1) = "-"
    THEN Unsigned(TRUE, SliceFrom(t, 1)) ELSE Unsigned(FALSE, t)
PyInt(s) == Stripped(Strip(s))

\* set.pop() repeated while the set holds more than n elements (lines 877-878);
\* pop takes an arbitrary element: order is the order in which this run's pops
\* take them.
RECURSIVE PopWhile(_, _, _, _)
PopWhile(S, n, order, i) ==
    IF Cardinality(S) <= n \/ i > Len(order) THEN S
    ELSE PopWhile(S \ {order[i]}, n, order, i + 1)

\* Lines 852-870: the two set operators; a pop of the empty stack raises.
EvalOperator(item, st) ==
    IF Len(st.stack) < 2 THEN [st EXCEPT !.exc = ExcIndex]
    ELSE LET set1 == st.heap[st.stack[Len(st.stack)]]
             set2 == st.heap[st.stack[Len(st.stack) - 1]]
             new  == IF item = "or" THEN set1 \union set2 ELSE set2 \ set1
         IN  [st EXCEPT !.heap = Append(st.heap, new),
                        !.stack = Append(SubSeq(st.stack, 1, Len(st.stack) - 2),
                                         Len(st.heap) + 1)]

\* Lines 877-878: the set on top of the stack becomes cut; a pop of the
\* empty set raises.
Truncated(st, cut, n) ==
    [st EXCEPT !.heap[Last(st.stack)] = cut,
               !.exc = IF Cardinality(cut) > n THEN ExcKey ELSE NoExc]

\* Lines 876-877: int() of a malformed number raises, and so does stack[-1]
\* of the empty stack.
LimitTo(n, st, order) ==
    IF ~n.ok THEN [st EXCEPT !.exc = ExcValue]
    ELSE IF Len(st.stack) = 0 THEN [st EXCEPT !.exc = ExcIndex]
    ELSE Truncated(st, PopWhile(st.heap[Last(st.stack)], n.val, order, 1), n.val)

\* Lines 872-879: the set on top of the stack, truncated in place.
EvalLimit(item, st, order) == LimitTo(PyInt(SliceFrom(item, 10)), st, order)

\* Line 888: if item in samcache
NeverCached(item, cache) == FALSE
Cached(item, cache) == item \in DOMAIN cache

\* Lines 881-895: a sam dimension, from the cache or from SAM.
EvalDimensionCaching(item, st) ==
    IF Cached(item, st.cache)
    THEN [st EXCEPT !.stack = Append(st.stack, st.cache[item])]
    ELSE [st EXCEPT !.queries = Append(st.queries, item),
                    !.heap = Append(st.heap, IF item \in SamKnown THEN SamFiles(item) ELSE {}),
                    !.cache = [k \in DOMAIN st.cache \union {item} |->
                                  IF k = item THEN Len(st.heap) + 1 ELSE st.cache[k]],
                    !.stack = Append(st.stack, Len(st.heap) + 1),
                    !.exc = IF item \in SamKnown THEN NoExc ELSE ExcSam]
EvalDimension(item, st) ==
    IF Cached(item, st.cache)
    THEN [st EXCEPT !.stack = Append(st.stack, st.cache[item])]
    ELSE IF item \notin SamKnown
    THEN [st EXCEPT !.queries = Append(st.queries, item), !.exc = ExcSam]
    ELSE LET id == Len(st.heap) + 1
         IN  [st EXCEPT !.queries = Append(st.queries, item),
                        !.heap = Append(st.heap, SamFiles(item)),
                        !.cache = [k \in DOMAIN st.cache \union {item} |->
                                      IF k = item THEN id ELSE st.cache[k]],
                        !.stack = Append(st.stack, id)]

\* Lines 850-895: the loop over the rpn list.
RECURSIVE EvalRPN(_, _, _, _)
EvalRPN(rpn, i, st, order) ==
    IF i > Len(rpn) \/ st.exc # NoExc THEN st
    ELSE LET item == rpn[i]
             nxt  == IF item = "or" \/ item = "minus" THEN EvalOperator(item, st)
                     ELSE IF StartsWith(item, "with limit") THEN EvalLimit(item, st, order)
                     ELSE EvalDimension(item, st)
         IN  EvalRPN(rpn, i + 1, nxt, order)

\* listFiles(dim) run on the cache and heap given: [exc, ret, cache, heap,
\* queries], where ret is the reference returned, queries the list of the
\* dimensions samweb().listFiles was called with, and exc the exception raised.
LfOut(st, ret) ==
    [exc |-> st.exc, ret |-> ret, cache |-> st.cache, heap |-> st.heap,
     queries |-> st.queries]

\* Lines 899-901: the set on top of the stack is cached under dim and returned.
LfEnd(st, dim) ==
    IF st.exc # NoExc THEN LfOut(st, 0)
    ELSE IF Len(st.stack) = 0 THEN LfOut([st EXCEPT !.exc = ExcIndex], 0)
    ELSE LfOut([st EXCEPT !.cache = [k \in DOMAIN st.cache \union {dim} |->
                                        IF k = dim THEN Last(st.stack) ELSE st.cache[k]]],
               Last(st.stack))

\* Lines 849-850: the rpn list is evaluated on the empty stack.
LfEval(t, dim, st0, order) ==
    IF t.exc # NoExc THEN LfOut([st0 EXCEPT !.exc = t.exc], 0)
    ELSE LfEnd(EvalRPN(t.rpn, 1, st0, order), dim)

\* Line 845: the expanded dimension is tokenized.
LfTokenize(e, st0, order) ==
    IF e.exc # NoExc THEN LfOut([st0 EXCEPT !.exc = e.exc], 0)
    ELSE LfEval(tokenizeRPN(e.dim), e.dim, st0, order)

\* Lines 828-841: a cached dimension is returned as cached, any other expanded.
LfStart(dim, st0, order) ==
    IF dim \in DOMAIN st0.cache THEN LfOut(st0, st0.cache[dim])
    ELSE LfTokenize(ExpandAll(dim), st0, order)

listFiles(dim, cache, hp, order) ==
    LfStart(dim, [stack |-> <<>>, cache |-> cache, heap |-> hp, queries |-> <<>>,
                  exc |-> NoExc], order)

\* The set objects no reference is left to are freed: the heap keeps the
\* objects samcache refers to, in their order of creation.
Rank(refs, id) == Cardinality({j \in refs : j <= id})
Kept(cache, hp, refs) ==
    [cache |-> [k \in DOMAIN cache |-> Rank(refs, cache[k])],
     heap  |-> [i \in 1..Cardinality(refs) |-> hp[CHOOSE j \in refs : Rank(refs, j) = i]]]
Compact(cache, hp) == Kept(cache, hp, {cache[k] : k \in DOMAIN cache})

(***************************************************************************)
(* The dimension strings the model calls listFiles with.                   *)
(***************************************************************************)

\* Expressions of the grammar  E ::= T | E or T | E minus T,  T ::= atom | ( E )
\* as trees: <<"atom", a>>, <<"grp", e>>, <<"or", l, r>>, <<"minus", l, r>>.
Ops == {"or", "minus"}
AtomA == <<"atom", "a">>
AtomB == <<"atom", "b">>
AtomC == <<"atom", "c">>
Grp(e) == <<"grp", e>>
Bin(l, r) == {<<op, l, r>> : op \in Ops}

ExprTrees ==
    {AtomA, Grp(AtomA)}
    \union Bin(AtomA, AtomB)
    \union {Grp(t) : t \in Bin(AtomA, AtomB)}
    \union Bin(AtomA, Grp(AtomB))
    \union UNION {Bin(t, AtomC) : t \in Bin(AtomA, AtomB)}
    \union UNION {Bin(AtomA, Grp(t)) : t \in Bin(AtomB, AtomC)}
    \union UNION {Bin(Grp(t), AtomC) : t \in Bin(AtomA, AtomB)}

\* The dimension string of an expression.
RECURSIVE Render(_)
Render(t) ==
    IF t[1] = "atom" THEN t[2]
    ELSE IF t[1] = "grp" THEN "(" \o Render(t[2]) \o ")"
    ELSE Render(t[2]) \o " " \o t[1] \o " " \o Render(t[3])

\* The set of files an expression denotes: 'or' the union, 'a minus b' the
\* files of a not in b, each atom the set SAM returns for it.
RECURSIVE Value(_)
Value(t) ==
    IF t[1] = "atom" THEN SamFiles(t[2])
    ELSE IF t[1] = "grp" THEN Value(t[2])
    ELSE IF t[1] = "or" THEN Value(t[2]) \union Value(t[3])
    ELSE Value(t[2]) \ Value(t[3])

ExprDims == {Render(t) : t \in ExprTrees}

\* Expressions followed by a 'with limit N' clause.
LimitBases == {AtomA, AtomB} \union Bin(AtomA, AtomB)
LimitValues == {0, 1, 2, 3}
LimitClause(n) == " with limit " \o ToString(n)
LimitDims == {Render(t) \o LimitClause(n) : t \in LimitBases, n \in LimitValues}

\* Dimensions with isparentof:/ischildof:, defname:, and malformed ones.
OtherDims ==
    {"x", "x or a", "isparentof:(a)", "ischildof:(b) or a", "ischildof:(a or b)",
     "defname: one", "defname: two minus c", "defname: none", "a or ( b", "a )",
     "a or", "", "a with limit x"}

Dims == ExprDims \union LimitDims \union OtherDims

\* The orders in which set.pop() may take the elements of a set.
PopOrders == {o \in [1..Cardinality(Files) -> Files] :
                 \A i, j \in DOMAIN o : i # j => o[i] # o[j]}

(***************************************************************************)
(* The process: the module globals, and the last call of each function.    *)
(***************************************************************************)

\* The number of listFiles calls of a run.
MaxCalls == 2

VARIABLES
    samcache,    \* project_utilities.samcache: dimension -> reference to a set
    heap,        \* the set objects samcache refers to
    ncalls,      \* the number of listFiles calls made
    lf_dim,      \* the argument of the last listFiles call
    lf_exc,      \* the exception it raised, NoExc after a normal return
    lf_ret,      \* the set it returned, as it was at the return
    lf_queries,  \* the dimensions it called samweb().listFiles with, in order
    samlog,      \* dimension -> number of samweb().listFiles calls with it
    returned     \* the arguments of the earlier listFiles calls that returned

lfVars == <<samcache, heap, ncalls, lf_dim, lf_exc, lf_ret, lf_queries, samlog, returned>>

VARIABLES
    tk_dim,      \* the argument of the last tokenizeRPN call
    tk_out       \* what it returned or raised: [rpn, exc]

tkVars == <<tk_dim, tk_out>>

VARIABLES
    env,         \* os.environ, restricted to the variables the wrappers touch
    token_ok,    \* larbatch_utilities.token_ok
    w_fn,        \* the wrapper called last
    w_pc,        \* where the call is: "idle" between calls
    w_env0,      \* os.environ as it was when the call began
    w_save,      \* the wrapper's save_vars
    w_out,       \* how the last call ended: [kind, exc, val]
    proc,        \* the subprocess the call launched
    thread,      \* the helper thread running wait_for_subprocess
    queue,       \* the queue the helper thread fills
    buf          \* posix_cp's buffer process: [st, pc, status]

ifVars == <<env, token_ok, w_fn, w_pc, w_env0, w_save, w_out, proc, thread, queue, buf>>

VARIABLES
    p_fn,        \* the path conversion called last
    p_path,      \* its argument
    p_out        \* what it returned or raised

paVars == <<p_fn, p_path, p_out>>

\* The other functions of the model are called on an input (the arguments,
\* and what the call reads of the environment, the file system, the process
\* table and SAM) and leave an outcome (the value returned or the exception
\* raised, and what the call changed).
VARIABLES
    ge_in, ge_out,     \* get_experiment
    cr_in, cr_out,     \* get_ppid and check_running
    pi_in, pi_out,     \* parseInt
    cd_in, cd_out,     \* create_limited_dataset
    ut_in, ut_out,     \* use_token_auth
    rs_in, rs_out,     \* rootstat
    sp_in, sp_out      \* start_project

geVars == <<ge_in, ge_out>>
crVars == <<cr_in, cr_out>>
piVars == <<pi_in, pi_out>>
cdVars == <<cd_in, cd_out>>
utVars == <<ut_in, ut_out>>
rsVars == <<rs_in, rs_out>>
spVars == <<sp_in, sp_out>>

\* wait_for_stat is modelled step by step, beside the file system it polls.
VARIABLES
    ws_pc,        \* where the call is: "idle" before it, "done" after it
    ws_path,      \* its argument
    ws_ntry,      \* its local ntry
    ws_checks,    \* the larbatch_posix.access calls it has made
    ws_hits,      \* those that found the path readable
    ws_lists,     \* the larbatch_posix.listdir calls it has made
    ws_dir,       \* the argument of the last one
    ws_ret,       \* the value returned
    ws_readable   \* whether the path is readable now

wsVars == <<ws_pc, ws_path, ws_ntry, ws_checks, ws_hits, ws_lists, ws_dir, ws_ret, ws_readable>>

fnVars == <<geVars, crVars, piVars, cdVars, utVars, rsVars, spVars, wsVars>>

\* The variables of the processes modelled step by step.
stepVars == <<lfVars, tkVars, ifVars, paVars, wsVars>>

\* What a function's variables hold before it has been called.
Uncalled == [kind |-> "uncalled"]

vars == <<lfVars, tkVars, ifVars, paVars, fnVars>>

EmptyMap == [k \in {} |-> 0]

\* samlog with one more call for each element of the list q.
RECURSIVE Logged(_, _, _)
Logged(log, q, i) ==
    IF i > Len(q) THEN log
    ELSE Logged([k \in DOMAIN log \union {q[i]} |->
                    IF k = q[i] THEN (IF k \in DOMAIN log THEN log[k] + 1 ELSE 1)
                    ELSE log[k]],
                q, i + 1)

\* The strings the model calls tokenizeRPN with: up to TokLen pieces in a row.
TokLen == 4
TokPieces == {"a", " or ", " minus ", "(", ")", "isparentof:(", "ischildof:(",
              " with limit 1"}
RECURSIVE Joined(_, _)
Joined(q, i) == IF i > Len(q) THEN "" ELSE q[i] \o Joined(q, i + 1)
TokDims == {Joined(q, 1) : q \in UNION {[1..n -> TokPieces] : n \in 0..TokLen}}

(***************************************************************************)
(* The ifdh wrappers, addLayerTwo and posix_cp: values.                    *)
(***************************************************************************)

IfdhFns == {"ifdh_cp", "ifdh_ls", "ifdh_ll", "ifdh_mkdir", "ifdh_mkdir_p",
            "ifdh_rmdir", "ifdh_chmod", "ifdh_mv", "ifdh_rm"}
ThreadFns == IfdhFns \union {"addLayerTwo"}
WrapperFns == ThreadFns \union {"posix_cp"}

\* The command line of each wrapper; the arguments stand for the caller's.
Cmd(fn) ==
    CASE fn = "ifdh_cp"      -> <<"ifdh", "cp", "source", "destination">>
      [] fn = "ifdh_ls"      -> <<"ifdh", "ls", "path", "1">>
      [] fn = "ifdh_ll"      -> <<"ifdh", "ll", "path", "1">>
      [] fn = "ifdh_mkdir"   -> <<"ifdh", "mkdir", "path">>
      [] fn = "ifdh_mkdir_p" -> <<"ifdh", "mkdir_p", "path">>
      [] fn = "ifdh_rmdir"   -> <<"ifdh", "rmdir", "path">>
      [] fn = "ifdh_chmod"   -> <<"ifdh", "chmod", "755", "path">>
      [] fn = "ifdh_mv"      -> <<"ifdh", "mv", "src", "dest">>
      [] fn = "ifdh_rm"      -> <<"ifdh", "rm", "path">>
      [] fn = "addLayerTwo"  -> <<"ifdh", "cp", "/dev/null", "path">>
      [] OTHER               -> <<"cp", "source", "destination">>

\* The environment variables the wrappers hide from ifdh, and their values.
X509Vars == {"X509_USER_CERT", "X509_USER_KEY"}
EnvValues == {"", "/tmp/x509up"}
Environments == UNION {[D -> EnvValues] : D \in SUBSET X509Vars}

\* What a subprocess may write: the bytes of a text (the model's subprocesses
\* write text that decodes).
Bytes(text) == [bytes |-> text]
StdoutTexts == {"", "d1\nd2\n"}

\* convert_str (larbatch_utilities.py lines 1083-1114) of a bytes object.
convert_str(b) == b.bytes

\* str.splitlines()
RECURSIVE LinesFrom(_, _, _, _)
LinesFrom(s, i, line, acc) ==
    IF i > Len(s) THEN (IF line = "" THEN acc ELSE Append(acc, line))
    ELSE LinesFrom(s, i + 1,
                   IF SubSeq(s, i, i) = "\n" THEN "" ELSE line \o SubSeq(s, i, i),
                   IF SubSeq(s, i, i) = "\n" THEN Append(acc, line) ELSE acc)
SplitLines(s) == LinesFrom(s, 1, "", <<>>)

\* How a subprocess behaves: it runs to its end; it hangs until a signal ends
\* it; it hangs and ignores SIGTERM; it hangs where no signal reaches it.
ProcModes == {"runs", "hangs", "deaf", "stuck"}
SIGTERM == 15
SIGKILL == 9

NoProc == [st |-> "none", mode |-> "runs", rc |-> 0, out |-> Bytes(""),
           err |-> Bytes(""), sig |-> 0, tok |-> FALSE]
NoBuf == [st |-> "none", pc |-> "none", status |-> 0]
NoOut == [kind |-> "none", exc |-> NoExc, val |-> <<>>]
Returns(val) == [kind |-> "return", exc |-> NoExc, val |-> val]
Raises(exc, val) == [kind |-> "raise", exc |-> exc, val |-> val]

ExcIFDH == "IFDHError"
ExcOS == "OSError"
ExcRuntime == "RuntimeError('Unable to determine experiment.')"

(***************************************************************************)
(* The dCache path conversions (larbatch_utilities.py lines 694-729).      *)
(* A Python value is a string or None; a call returns a value or raises.   *)
(***************************************************************************)

PyStr(s) == [kind |-> "str", val |-> s]
PyNone == [kind |-> "None", val |-> ""]
PyTypeError == [kind |-> "TypeError", val |-> ""]

\* s + v for a string s: TypeError unless v is a string.
Concat(s, v) == IF v.kind = "str" THEN PyStr(s \o v.val) ELSE PyTypeError

dcache_server == "fndcadoor.fnal.gov"

\* The function has one branch and no other return statement: a path the
\* branch does not take returns None.
dcache_path(path) ==
    IF StartsWith(path, "/pnfs/") /\ ~StartsWith(path, "/pnfs/fnal.gov/usr/")
    THEN PyStr("/pnfs/fnal.gov/usr/" \o SliceFrom(path, 6))
    ELSE PyNone

xrootd_server_port == dcache_server \o ":1094"

xrootd_uri(path) ==
    IF StartsWith(path, "/pnfs/")
    THEN Concat("root://" \o xrootd_server_port, dcache_path(path))
    ELSE PyStr(path)

gridftp_uri(path) ==
    IF StartsWith(path, "/pnfs/")
    THEN Concat("gsiftp://" \o dcache_server, dcache_path(path))
    ELSE PyStr(path)

\* The paths the conversions are called with.
PathHeads == {"", "/", "/pnfs", "/pnfs/", "/pnfs/fnal.gov", "/pnfs/fnal.gov/usr",
              "/pnfs/fnal.gov/usr/", "/pnfs/uboone/", "/pnfs/fnal.gov/usr/uboone/",
              "/tmp/", "pnfs/", "/uboone/data/"}
PathTails == {"", "a", "scratch/users/a.root", "/pnfs/b", "fnal.gov/usr/c"}
Paths == {h \o t : h \in PathHeads, t \in PathTails}

\* What tk_out holds before tokenizeRPN has been called.
NotCalled == [rpn |-> <<>>, exc |-> "not called"]

\* The module globals as the import leaves them, in a process whose
\* environment is e and which is about to call tokenizeRPN(dim).
Imported(e, dim) ==
    /\ env = e
    /\ token_ok = FALSE
    /\ w_fn = "none"
    /\ w_pc = "idle"
    /\ w_env0 = env
    /\ w_save = EmptyMap
    /\ w_out = NoOut
    /\ proc = NoProc
    /\ thread = "none"
    /\ queue = <<>>
    /\ buf = NoBuf
    /\ p_fn = "none"
    /\ p_path = ""
    /\ p_out = PyNone
    /\ ge_in = Uncalled /\ ge_out = Uncalled
    /\ cr_in = Uncalled /\ cr_out = Uncalled
    /\ pi_in = Uncalled /\ pi_out = Uncalled
    /\ cd_in = Uncalled /\ cd_out = Uncalled
    /\ ut_in = Uncalled /\ ut_out = Uncalled
    /\ rs_in = Uncalled /\ rs_out = Uncalled
    /\ sp_in = Uncalled /\ sp_out = Uncalled
    /\ ws_pc = "idle"
    /\ ws_path = ""
    /\ ws_ntry = 0
    /\ ws_checks = 0
    /\ ws_hits = 0
    /\ ws_lists = 0
    /\ ws_dir = ""
    /\ ws_ret = 0
    /\ ws_readable = FALSE
    /\ tk_dim = dim
    /\ tk_out = NotCalled
    /\ samcache = EmptyMap
    /\ heap = <<>>
    /\ ncalls = 0
    /\ lf_dim = ""
    /\ lf_exc = NoExc
    /\ lf_ret = {}
    /\ lf_queries = <<>>
    /\ samlog = EmptyMap
    /\ returned = {}

\* A process started without the X509 variables.
Init == Imported(EmptyMap, "")

\* A process started in any environment.
InitIfdh == \E e \in Environments : Imported(e, "")

\* A process about to call tokenizeRPN with any of the model's strings.
InitTok == \E dim \in TokDims : Imported(EmptyMap, dim)

\* The process after a call listFiles(dim) that ran as r and left c.
AfterListFiles(dim, r, c) ==
    /\ samcache' = c.cache
    /\ heap' = c.heap
    /\ lf_exc' = r.exc
    /\ lf_ret' = IF r.exc = NoExc THEN r.heap[r.ret] ELSE {}
    /\ lf_queries' = r.queries
    /\ samlog' = Logged(samlog, r.queries, 1)
    /\ ncalls' = ncalls + 1
    /\ lf_dim' = dim
    /\ returned' = returned \union (IF ncalls > 0 /\ lf_exc = NoExc THEN {lf_dim} ELSE {})
    /\ UNCHANGED <<tkVars, ifVars, paVars, fnVars>>

ListFilesRan(dim, r) == AfterListFiles(dim, r, Compact(r.cache, r.heap))

\* A call listFiles(dim).
ListFiles(dim, order) ==
    /\ ncalls < MaxCalls
    /\ ListFilesRan(dim, listFiles(dim, samcache, heap, order))

Next ==
    \E dim \in Dims :
        \E order \in (IF Find(dim, "with limit") >= 0 THEN PopOrders
                      ELSE {[i \in 1..Cardinality(Files) |-> i]}) :
            ListFiles(dim, order)

\* The process calling listFiles.
Spec == Init /\ [][Next]_vars

\* The call tokenizeRPN(tk_dim).
TokenizeRPN ==
    /\ tk_out = NotCalled
    /\ tk_out' = tokenizeRPN(tk_dim)
    /\ UNCHANGED <<tk_dim, lfVars, ifVars, paVars, fnVars>>

NextTok == TokenizeRPN

\* The process calling tokenizeRPN.
SpecTok == InitTok /\ [][NextTok]_vars

(***************************************************************************)
(* The ifdh wrappers, addLayerTwo and posix_cp: steps.  A call runs from   *)
(* w_pc = "idle" back to "idle"; the subprocess and the helper thread take *)
(* their own steps in between.                                             *)
(***************************************************************************)

\* The call ends, returning or raising.
Ends(out) == w_pc' = "idle" /\ w_out' = out

\* A wrapper is called (an ifdh_* wrapper begins with test_token()).
Call(fn) ==
    /\ w_pc = "idle"
    /\ w_fn' = fn
    /\ w_pc' = "test_token"
    /\ w_env0' = env
    /\ w_save' = EmptyMap
    /\ w_out' = NoOut
    /\ proc' = NoProc
    /\ thread' = "none"
    /\ queue' = <<>>
    /\ buf' = NoBuf
    /\ UNCHANGED <<env, token_ok, lfVars, tkVars, paVars, fnVars>>

\* addLayerTwo (project_utilities.py lines 570-589): nothing is done for a
\* path that is not an empty file in dCache; an empty file is removed, and
\* recreated with ifdh only if recreate is set.
CallAddLayerTwo(empty, recreate) ==
    /\ w_pc = "idle"
    /\ w_fn' = "addLayerTwo"
    /\ IF empty /\ recreate THEN w_pc' = "test_token" /\ w_out' = NoOut
       ELSE Ends(Returns(<<>>))
    /\ w_env0' = env
    /\ w_save' = EmptyMap
    /\ proc' = NoProc
    /\ thread' = "none"
    /\ queue' = <<>>
    /\ buf' = NoBuf
    /\ UNCHANGED <<env, token_ok, lfVars, tkVars, paVars, fnVars>>

\* test_token and get_token (larbatch_utilities.py lines 605-652): with no
\* token yet, httokendecode is run (decoded: it succeeds) and, if it fails,
\* htgettoken (got: "ok", "failed", or "raised" when get_experiment raises
\* while the command line is built).  The wrapper goes on whatever
\* test_token returns.
TestToken(decoded, got) ==
    /\ w_pc = "test_token"
    /\ IF token_ok \/ decoded
       THEN token_ok' = TRUE /\ w_pc' = "save" /\ w_out' = w_out
       ELSE /\ token_ok' = (got = "ok")
            /\ IF got = "raised" THEN Ends(Raises(ExcRuntime, <<>>))
               ELSE w_pc' = "save" /\ w_out' = w_out
    /\ UNCHANGED <<env, w_fn, w_env0, w_save, proc, thread, queue, buf, lfVars, tkVars, paVars, fnVars>>

\* The wrappers' first loop: X509_USER_CERT and X509_USER_KEY are saved and
\* deleted from the environment.
SaveVars ==
    /\ w_pc = "save"
    /\ w_save' = [v \in DOMAIN env \intersect X509Vars |-> env[v]]
    /\ env' = [v \in DOMAIN env \ X509Vars |-> env[v]]
    /\ w_pc' = "popen"
    /\ UNCHANGED <<token_ok, w_fn, w_env0, w_out, proc, thread, queue, buf, lfVars, tkVars, paVars, fnVars>>

\* subprocess.Popen(cmd, ...): the subprocess is launched, or Popen raises
\* OSError (no ifdh on the path, no more processes) and the wrapper with it.
Popen(launched, mode) ==
    /\ w_pc = "popen"
    /\ IF launched
       THEN /\ proc' = [NoProc EXCEPT !.st = "running", !.mode = mode, !.tok = token_ok]
            /\ w_pc' = "start"
            /\ w_out' = w_out
       ELSE /\ proc' = proc
            /\ Ends(Raises(ExcOS, <<>>))
    /\ UNCHANGED <<env, token_ok, w_fn, w_env0, w_save, thread, queue, buf, lfVars, tkVars, paVars, fnVars>>

\* thread.start(), then thread.join(timeout=...) begins.
ThreadStart ==
    /\ w_pc = "start"
    /\ thread' = "alive"
    /\ w_pc' = "join"
    /\ UNCHANGED <<env, token_ok, w_fn, w_env0, w_save, w_out, proc, queue, buf, lfVars, tkVars, paVars, fnVars>>

\* The subprocess runs to its end.
ProcExit(rc, text) ==
    /\ proc.st = "running"
    /\ proc.mode = "runs"
    /\ proc' = [proc EXCEPT !.st = "exited", !.rc = rc, !.out = Bytes(text),
                            !.err = Bytes(IF rc = 0 THEN "" ELSE "failed")]
    /\ UNCHANGED <<env, token_ok, w_fn, w_pc, w_env0, w_save, w_out, thread, queue, buf,
                   lfVars, tkVars, paVars, fnVars>>

\* A signal ends the subprocess: SIGTERM unless it is ignored, SIGKILL unless
\* the subprocess is beyond signals.
ProcKilled ==
    /\ proc.st = "running"
    /\ \/ proc.sig = SIGTERM /\ proc.mode \in {"runs", "hangs"}
       \/ proc.sig = SIGKILL /\ proc.mode \in {"runs", "hangs", "deaf"}
    /\ proc' = [proc EXCEPT !.st = "exited", !.rc = 0 - proc.sig]
    /\ UNCHANGED <<env, token_ok, w_fn, w_pc, w_env0, w_save, w_out, thread, queue, buf,
                   lfVars, tkVars, paVars, fnVars>>

\* jobinfo.communicate() returns once the subprocess has ended.
CommunicateReturnsEarly == proc.st # "none"
CommunicateReturns == proc.st = "exited"

\* wait_for_subprocess (lines 582-588), run by the helper thread: after
\* communicate(), the return code, stdout and stderr are put on the queue.
WaitForSubprocess ==
    /\ thread = "alive"
    /\ CommunicateReturns
    /\ queue' = <<proc.rc, proc.out, proc.err>>
    /\ thread' = "done"
    /\ UNCHANGED <<env, token_ok, w_fn, w_pc, w_env0, w_save, w_out, proc, buf,
                   lfVars, tkVars, paVars, fnVars>>

\* thread.join(timeout=...) returns: the thread has ended, or the timeout has
\* passed with the thread alive.
JoinReturns ==
    /\ w_pc = "join"
    /\ w_pc' = "is_alive"
    /\ UNCHANGED <<env, token_ok, w_fn, w_env0, w_save, w_out, proc, thread, queue, buf,
                   lfVars, tkVars, paVars, fnVars>>

\* if thread.is_alive(): jobinfo.terminate() sends SIGTERM to a subprocess
\* that has not ended.
Terminate ==
    /\ w_pc = "is_alive"
    /\ IF thread = "alive"
       THEN /\ w_pc' = "join_again"
            /\ proc' = IF proc.st = "running" THEN [proc EXCEPT !.sig = SIGTERM] ELSE proc
       ELSE w_pc' = "get" /\ proc' = proc
    /\ UNCHANGED <<env, token_ok, w_fn, w_env0, w_save, w_out, thread, queue, buf,
                   lfVars, tkVars, paVars, fnVars>>

\* thread.join() after terminate(): it returns when the thread has ended.
JoinAgain ==
    /\ w_pc = "join_again"
    /\ thread = "done"
    /\ w_pc' = "get"
    /\ UNCHANGED <<env, token_ok, w_fn, w_env0, w_save, w_out, proc, thread, queue, buf,
                   lfVars, tkVars, paVars, fnVars>>

\* The environment with the saved variables put back.
Restored(e, saved) ==
    [v \in DOMAIN e \union DOMAIN saved |-> IF v \in DOMAIN saved THEN saved[v] ELSE e[v]]

\* Whether the wrapper raises IFDHError for the return code rc.
RaisesOnlyPositive(fn, rc) == rc > 0 /\ fn # "ifdh_chmod"
RaisesFor(fn, rc) == rc # 0 /\ fn # "ifdh_chmod"

\* What an ifdh wrapper returns after a command that printed jobout.
ReturnValue(fn, jobout) ==
    IF fn \in {"ifdh_ls", "ifdh_ll"} THEN SplitLines(jobout) ELSE <<>>

\* rc = q.get() ... to the end of the wrapper: q.get() waits for the thread's
\* results; the variables are restored, and IFDHError is raised for a non-zero
\* return code (by ifdh_chmod a warning is printed instead).
GetResults ==
    /\ w_pc = "get"
    /\ Len(queue) = 3
    /\ env' = Restored(env, w_save)
    /\ IF RaisesFor(w_fn, queue[1])
       THEN Ends(Raises(ExcIFDH, [cmd |-> Cmd(w_fn), rc |-> queue[1],
                                  out |-> convert_str(queue[2]), err |-> convert_str(queue[3])]))
       ELSE Ends(Returns(ReturnValue(w_fn, convert_str(queue[2]))))
    /\ UNCHANGED <<token_ok, w_fn, w_env0, w_save, proc, thread, queue, buf, lfVars, tkVars, paVars, fnVars>>

\* posix_cp (larbatch_utilities.py lines 518-567) is called: it forks.
CallPosixCp ==
    /\ w_pc = "idle"
    /\ w_fn' = "posix_cp"
    /\ w_pc' = "fork"
    /\ w_env0' = env
    /\ w_save' = EmptyMap
    /\ w_out' = NoOut
    /\ proc' = NoProc
    /\ thread' = "none"
    /\ queue' = <<>>
    /\ buf' = NoBuf
    /\ UNCHANGED <<env, token_ok, lfVars, tkVars, paVars, fnVars>>

\* os.fork(): the buffer process begins, and the parent waits for it; or fork
\* raises OSError.
Fork(forked) ==
    /\ w_pc = "fork"
    /\ IF forked
       THEN /\ buf' = [st |-> "running", pc |-> "popen", status |-> 0]
            /\ w_pc' = "waitpid"
            /\ w_out' = w_out
       ELSE buf' = buf /\ Ends(Raises(ExcOS, <<>>))
    /\ UNCHANGED <<env, token_ok, w_fn, w_env0, w_save, proc, thread, queue, lfVars, tkVars, paVars, fnVars>>

\* The wait status of a process that called os._exit(code).
ExitStatus(code) == (code % 256) * 256

\* In the buffer process: Popen launches cp and the helper thread is started;
\* or Popen raises, and the exception ends the buffer process with code 1.
BufPopen(launched, mode) ==
    /\ buf.st = "running" /\ buf.pc = "popen"
    /\ IF launched
       THEN /\ proc' = [NoProc EXCEPT !.st = "running", !.mode = mode, !.tok = token_ok]
            /\ thread' = "alive"
            /\ buf' = [buf EXCEPT !.pc = "join"]
       ELSE /\ proc' = proc
            /\ thread' = thread
            /\ buf' = [buf EXCEPT !.st = "exited", !.pc = "none", !.status = ExitStatus(1)]
    /\ UNCHANGED <<env, token_ok, w_fn, w_pc, w_env0, w_save, w_out, queue, lfVars, tkVars, paVars, fnVars>>

\* In the buffer process: thread.join(timeout=600) returns.
BufJoinReturns ==
    /\ buf.st = "running" /\ buf.pc = "join"
    /\ buf' = [buf EXCEPT !.pc = "is_alive"]
    /\ UNCHANGED <<env, token_ok, w_fn, w_pc, w_env0, w_save, w_out, proc, thread, queue,
                   lfVars, tkVars, paVars, fnVars>>

\* In the buffer process: if the thread is alive, jobinfo.kill() sends SIGKILL
\* and os._exit(1) ends the buffer process, and its thread with it, at once;
\* otherwise the buffer process exits with the return code of cp.
BufExit ==
    /\ buf.st = "running" /\ buf.pc = "is_alive"
    /\ IF thread = "alive"
       THEN /\ proc' = IF proc.st = "running" THEN [proc EXCEPT !.sig = SIGKILL] ELSE proc
            /\ thread' = "none"
            /\ buf' = [buf EXCEPT !.st = "exited", !.pc = "none", !.status = ExitStatus(1)]
       ELSE /\ proc' = proc
            /\ thread' = thread
            /\ buf' = [buf EXCEPT !.st = "exited", !.pc = "none",
                                  !.status = ExitStatus(queue[1])]
    /\ UNCHANGED <<env, token_ok, w_fn, w_pc, w_env0, w_save, w_out, queue, lfVars, tkVars, paVars, fnVars>>

\* In the parent: os.waitpid(buffer_pid, 0) returns when the buffer process
\* has ended; rc = status/256, and IFDHError is raised if it is not zero.
Waitpid ==
    /\ w_pc = "waitpid"
    /\ buf.st = "exited"
    /\ IF buf.status # 0
       THEN Ends(Raises(ExcIFDH, [cmd |-> Cmd(w_fn), rc |-> buf.status \div 256,
                                  out |-> "", err |-> ""]))
       ELSE Ends(Returns(<<>>))
    /\ UNCHANGED <<env, token_ok, w_fn, w_env0, w_save, proc, thread, queue, buf,
                   lfVars, tkVars, paVars, fnVars>>

NextIfdh ==
    \/ \E fn \in IfdhFns : Call(fn)
    \/ CallPosixCp
    \/ \E forked \in BOOLEAN : Fork(forked)
    \/ \E launched \in BOOLEAN : \E mode \in ProcModes : BufPopen(launched, mode)
    \/ BufJoinReturns
    \/ BufExit
    \/ Waitpid
    \/ \E empty, recreate \in BOOLEAN : CallAddLayerTwo(empty, recreate)
    \/ \E decoded \in BOOLEAN : \E got \in {"ok", "failed", "raised"} : TestToken(decoded, got)
    \/ SaveVars
    \/ \E launched \in BOOLEAN : \E mode \in ProcModes : Popen(launched, mode)
    \/ ThreadStart
    \/ \E rc \in {0, 1} : \E text \in StdoutTexts : ProcExit(rc, text)
    \/ ProcKilled
    \/ WaitForSubprocess
    \/ JoinReturns
    \/ Terminate
    \/ JoinAgain
    \/ GetResults

\* The process calling the ifdh wrappers, addLayerTwo and posix_cp.
SpecIfdh == InitIfdh /\ [][NextIfdh]_vars

\* The same process under the scheduler's fairness: a step that can be taken
\* is taken in the end (a thread that can run runs, a timeout that is running
\* passes, a signal that can end a process ends it).
SpecIfdhFair == InitIfdh /\ [][NextIfdh]_vars /\ WF_vars(NextIfdh)

\* Calls of the path conversions.
DcachePath(path) ==
    /\ p_fn' = "dcache_path"
    /\ p_path' = path
    /\ p_out' = dcache_path(path)
    /\ UNCHANGED <<lfVars, tkVars, ifVars, fnVars>>

XrootdUri(path) ==
    /\ p_fn' = "xrootd_uri"
    /\ p_path' = path
    /\ p_out' = xrootd_uri(path)
    /\ UNCHANGED <<lfVars, tkVars, ifVars, fnVars>>

GridftpUri(path) ==
    /\ p_fn' = "gridftp_uri"
    /\ p_path' = path
    /\ p_out' = gridftp_uri(path)
    /\ UNCHANGED <<lfVars, tkVars, ifVars, fnVars>>

NextPath ==
    \E path \in Paths :
        \/ DcachePath(path)
        \/ XrootdUri(path)
        \/ GridftpUri(path)

\* The process calling the path conversions.
SpecPath == Init /\ [][NextPath]_vars

(***************************************************************************)
(* The dimension evaluator: claims.                                        *)
(***************************************************************************)

Min(a, b) == IF a <= b THEN a ELSE b

\* C1 (as claimed): for every dimension built from atomic dimensions, 'or',
\* 'minus' and balanced parentheses, listFiles returns the set got by reading
\* 'or' as union and 'a minus b' as the files of a not in b, left to right,
\* groups first, each atom standing for the set SAM returns for it.
C1_ListFilesIsSetAlgebra ==
    \A t \in ExprTrees :
        (ncalls > 0 /\ lf_dim = Render(t)) => (lf_exc = NoExc /\ lf_ret = Value(t))

\* C2 (as claimed): samweb listFiles is queried at most once for each distinct
\* atomic dimension string, and a listFiles(d) after one that returned issues
\* no query.
C2_QueriedAtMostOnce ==
    /\ \A item \in DOMAIN samlog : samlog[item] <= 1
    /\ (ncalls > 0 /\ lf_dim \in returned) => lf_queries = <<>>

\* C2 (amended): samweb listFiles is queried at most once for each distinct
\* atomic dimension string SAM answers (a query that raised is not cached and
\* a later call issues it again), and a listFiles(d) after one that returned
\* issues no query.
C2_AnsweredQueriedOnce ==
    /\ \A item \in DOMAIN samlog : item \in SamKnown => samlog[item] <= 1
    /\ (ncalls > 0 /\ lf_dim \in returned) => lf_queries = <<>>

\* C2 witness: a second listFiles of a compound dimension, which queried SAM
\* for three atoms the first time, has returned without a query.
C2_Witness ==
    /\ ncalls = 2 /\ lf_dim = "a or b minus c" /\ lf_dim \in returned
    /\ lf_exc = NoExc /\ lf_queries = <<>>
    /\ \A item \in {"a", "b", "c"} : item \in DOMAIN samlog /\ samlog[item] = 1

\* C3 (as claimed): listFiles('D with limit N') returns exactly min(N, |F|)
\* files, all of them in F, the set D denotes.
C3_LimitTruncates ==
    \A t \in LimitBases : \A n \in LimitValues :
        (ncalls > 0 /\ lf_dim = Render(t) \o LimitClause(n)) =>
            /\ lf_exc = NoExc
            /\ Cardinality(lf_ret) = Min(n, Cardinality(Value(t)))
            /\ lf_ret \subseteq Value(t)

GroupingTokens == {"(", ")", "isparentof:(", "ischildof:("}

\* C4 (as claimed): the list tokenizeRPN returns holds no bare grouping token,
\* and a 'with limit' clause only as its last element.
C4_NoGroupingTokenReturned ==
    tk_out.exc = NoExc =>
        \A i \in 1..Len(tk_out.rpn) :
            /\ tk_out.rpn[i] \notin GroupingTokens
            /\ StartsWith(tk_out.rpn[i], "with limit") => i = Len(tk_out.rpn)

(***************************************************************************)
(* The ifdh wrappers, addLayerTwo and posix_cp: claims.                    *)
(***************************************************************************)

\* C5 (as claimed): when a call of an ifdh_* wrapper has ended, by return or
\* by any exception, X509_USER_CERT and X509_USER_KEY are present or absent
\* and valued as they were when the call began.
C5_EnvironmentRestored ==
    (w_pc = "idle" /\ w_fn \in IfdhFns) => env = w_env0

C7_CallEnds ==
    (w_pc # "idle" /\ w_fn \in IfdhFns) ~> (w_pc = "idle")

\* C8 (as claimed): an ifdh_* wrapper launches its ifdh command only with
\* token_ok True at the launch.
C8_TokenBeforeLaunch ==
    (w_fn \in IfdhFns /\ proc.st # "none") => proc.tok

\* C9 (as claimed): when an ifdh_* wrapper, addLayerTwo or posix_cp has
\* returned or raised, the subprocess it launched, the helper thread and the
\* buffer process have terminated.
C9_NothingLeftRunning ==
    (w_pc = "idle" /\ w_fn \in WrapperFns) =>
        proc.st # "running" /\ thread # "alive" /\ buf.st # "running"

\* C9 (amended): when an ifdh_* wrapper or addLayerTwo has returned or raised,
\* its subprocess and helper thread have terminated; when posix_cp has
\* returned or raised, its buffer process and the helper thread have
\* terminated, and cp has terminated unless it was sent SIGKILL at the
\* timeout, after which posix_cp does not wait for it.
C9_WrappersLeaveNothingRunning ==
    /\ (w_pc = "idle" /\ w_fn \in ThreadFns) =>
           proc.st # "running" /\ thread # "alive"
    /\ (w_pc = "idle" /\ w_fn = "posix_cp") =>
           /\ buf.st # "running" /\ thread # "alive"
           /\ proc.st = "running" => proc.sig = SIGKILL

\* C9 witness: an ifdh_* wrapper has ended after its timeout: the subprocess
\* was sent SIGTERM and has terminated, and so has the helper thread.
C9_Witness ==
    /\ w_pc = "idle" /\ w_fn \in IfdhFns
    /\ proc.st = "exited" /\ proc.sig = SIGTERM /\ proc.rc = 0 - SIGTERM
    /\ thread = "done"

(***************************************************************************)
(* The dCache path conversions: claims.                                    *)
(***************************************************************************)

\* C10 (as claimed): dcache_path returns '/pnfs/fnal.gov/usr/' and the rest
\* of a path that starts with '/pnfs/' but not with '/pnfs/fnal.gov/usr/',
\* and returns every other path unchanged.
C10_DcachePathOrUnchanged ==
    p_fn = "dcache_path" =>
        p_out = IF StartsWith(p_path, "/pnfs/") /\ ~StartsWith(p_path, "/pnfs/fnal.gov/usr/")
                THEN PyStr("/pnfs/fnal.gov/usr/" \o SliceFrom(p_path, Len("/pnfs/")))
                ELSE PyStr(p_path)

\* The path on the dCache server of a path that starts with '/pnfs/'.
ServerPath(path) ==
    IF StartsWith(path, "/pnfs/fnal.gov/usr/") THEN path
    ELSE "/pnfs/fnal.gov/usr/" \o SliceFrom(path, Len("/pnfs/"))

\* C11 (as claimed): for a path that starts with '/pnfs/', xrootd_uri returns
\* 'root://fndcadoor.fnal.gov:1094' and gridftp_uri 'gsiftp://fndcadoor.fnal.gov',
\* each followed by the dCache server path, without raising; every other path
\* is returned unchanged.
C11_UrisOfPnfsPaths ==
    /\ p_fn = "xrootd_uri" =>
          p_out = IF StartsWith(p_path, "/pnfs/")
                  THEN PyStr("root://fndcadoor.fnal.gov:1094" \o ServerPath(p_path))
                  ELSE PyStr(p_path)
    /\ p_fn = "gridftp_uri" =>
          p_out = IF StartsWith(p_path, "/pnfs/")
                  THEN PyStr("gsiftp://fndcadoor.fnal.gov" \o ServerPath(p_path))
                  ELSE PyStr(p_path)

(***************************************************************************)
(* get_experiment (larbatch_utilities.py lines 823-840).                   *)
(***************************************************************************)

PyRuntimeError(msg) == [kind |-> "RuntimeError", val |-> msg]

\* Lines 825-829: the value of the first of the two variables that is in
\* os.environ, whatever it is; '' when neither is.
FirstInEnviron(environ) ==
    IF "EXPERIMENT" \in DOMAIN environ THEN environ["EXPERIMENT"]
    ELSE IF "SAM_EXPERIMENT" \in DOMAIN environ THEN environ["SAM_EXPERIMENT"]
    ELSE ""

\* Lines 833-835: the hostname up to 'gpvm', when 'gpvm' is in it and not at
\* its beginning.
UpToGpvm(hostname, n) == IF n > 0 THEN SliceTo(hostname, n) ELSE ""

\* Lines 831-835: if not exp, the hostname is tried.
OrFromHostname(exp, hostname) ==
    IF exp = "" THEN UpToGpvm(hostname, Find(hostname, "gpvm")) ELSE exp

\* Lines 837-840
ReturnedOrRaised(exp) ==
    IF exp = "" THEN PyRuntimeError("Unable to determine experiment.") ELSE PyStr(exp)

get_experiment(environ, hostname) ==
    ReturnedOrRaised(OrFromHostname(FirstInEnviron(environ), hostname))

\* The environments and hostnames get_experiment is called in.
ExperimentValues == {"", "uboone", "sbnd"}
ExperimentEnvirons ==
    UNION {[D -> ExperimentValues] : D \in SUBSET {"EXPERIMENT", "SAM_EXPERIMENT"}}
Hostnames == {"uboonegpvm01.fnal.gov", "gpvm01.fnal.gov", "dunegpvm02gpvm", "host.fnal.gov",
              "", "gpvm", "xgpvm"}

\* A call get_experiment().
GetExperiment(environ, hostname) ==
    /\ ge_in' = [environ |-> environ, hostname |-> hostname]
    /\ ge_out' = get_experiment(environ, hostname)
    /\ UNCHANGED <<stepVars, crVars, piVars, cdVars, utVars, rsVars, spVars>>

NextExperiment ==
    \E environ \in ExperimentEnvirons : \E hostname \in Hostnames :
        GetExperiment(environ, hostname)

\* The process calling get_experiment.
SpecExperiment == Init /\ [][NextExperiment]_vars

\* The name a source yields: the value of a variable that is set, the part of
\* the hostname before 'gpvm'; '' when it yields none.
NameFromVariable(environ, ev) == IF ev \in DOMAIN environ THEN environ[ev] ELSE ""
NameFromHostname(hostname) ==
    IF Find(hostname, "gpvm") >= 0 THEN SliceTo(hostname, Find(hostname, "gpvm")) ELSE ""
FirstName(a, b, c) == IF a # "" THEN a ELSE IF b # "" THEN b ELSE c

\* C12 (as claimed): get_experiment returns the first non-empty name among
\* $EXPERIMENT, $SAM_EXPERIMENT and the hostname before 'gpvm', and raises
\* RuntimeError only when none of the three yields a name.
C12_FirstSourceWithName ==
    ge_in # Uncalled =>
        ge_out = ReturnedOrRaised(FirstName(NameFromVariable(ge_in.environ, "EXPERIMENT"),
                                            NameFromVariable(ge_in.environ, "SAM_EXPERIMENT"),
                                            NameFromHostname(ge_in.hostname)))

(***************************************************************************)
(* get_ppid and check_running (larbatch_utilities.py lines 967-1077).      *)
(* /proc is a table: the status file of a process (missing when the        *)
(* process is gone, else its lines), and for each entry of /proc what      *)
(* os.stat and the cmdline file give.                                      *)
(***************************************************************************)

PyIntValue(n) == [kind |-> "int", val |-> n]
PyOSError == [kind |-> "OSError", val |-> 0]

\* str.isdigit()
IsDigit(s) == Len(s) > 0 /\ DigitsFrom(s, 1, 0) >= 0

\* Lines 975-977: the words of a 'PPid:' line.
PpidWords(words, result) ==
    IF Len(words) >= 2 /\ IsDigit(words[2]) THEN DigitsFrom(words[2], 1, 0) ELSE result

\* Lines 974-977
PpidLine(line, result) ==
    IF StartsWith(line, "PPid:") THEN PpidWords(Split(line), result) ELSE result

\* Line 973: the loop over the lines of the status file.
RECURSIVE PpidLines(_, _, _)
PpidLines(lines, i, result) ==
    IF i > Len(lines) THEN result
    ELSE PpidLines(lines, i + 1, PpidLine(lines[i], result))

\* get_ppid of a process whose status file is statf: open() at line 972 is
\* outside any try and raises when the file cannot be opened.
get_ppid(statf) ==
    IF ~statf.exists THEN PyOSError ELSE PyIntValue(PpidLines(statf.lines, 1, 0))

MissingFile == [exists |-> FALSE, lines |-> <<>>]
FileOf(lines) == [exists |-> TRUE, lines |-> lines]
StatusOf(status, pid) == IF pid \in DOMAIN status THEN status[pid] ELSE MissingFile

\* Lines 1006-1010: the walk up the ancestors: [exc, ignore].
RECURSIVE Walk(_, _, _)
WalkOn(ppid, status, ignore) ==
    IF ppid.kind = "OSError" THEN [exc |-> TRUE, ignore |-> ignore]
    ELSE Walk(ppid.val, status, ignore)
Walk(pid, status, ignore) ==
    IF pid > 1 THEN WalkOn(get_ppid(StatusOf(status, pid)), status, ignore \union {pid})
    ELSE [exc |-> FALSE, ignore |-> ignore]

\* Lines 1032-1038
NoFlags == [project |-> 0, xml |-> 0, stage |-> 0, xmlmatch |-> 0, stagematch |-> 0,
            submit |-> 0, makeup |-> 0]

\* Lines 1044-1066: the body of the loop over the words of a command line.
ScanWord(word, f, xmlname, stagename) ==
    [project    |-> IF Len(word) >= 10 /\ SliceFrom(word, Len(word) - 10) = "project.py"
                    THEN 1 ELSE f.project,
     xmlmatch   |-> IF f.xml = 1 /\ word = xmlname THEN 1 ELSE f.xmlmatch,
     stagematch |-> IF ~(f.xml = 1 /\ word = xmlname) /\ f.stage = 1 /\ word = stagename
                    THEN 1 ELSE f.stagematch,
     xml        |-> IF word = "--xml" THEN 1 ELSE 0,
     stage      |-> IF word = "--stage" THEN 1 ELSE 0,
     submit     |-> IF word = "--submit" THEN 1 ELSE f.submit,
     makeup     |-> IF word = "--makeup" THEN 1 ELSE f.makeup]

\* Line 1040
RECURSIVE ScanWords(_, _, _, _, _)
ScanWords(words, i, f, xmlname, stagename) ==
    IF i > Len(words) THEN f
    ELSE ScanWords(words, i + 1, ScanWord(words[i], f, xmlname, stagename), xmlname, stagename)

\* Line 1068
FlagsMatch(f) ==
    f.project # 0 /\ f.submit + f.makeup # 0 /\ f.xmlmatch # 0 /\ f.stagematch # 0

\* Lines 1016-1073 for one process: os.stat or the open of cmdline may raise,
\* and the process is then passed over.
ProcessMatches(p, uid, xmlname, stagename) ==
    /\ ~p.gone
    /\ p.uid = uid
    /\ p.readable
    /\ FlagsMatch(ScanWords(p.words, 1, NoFlags, xmlname, stagename))

\* Lines 1014-1015
EntryMatches(entry, ignore, in) ==
    /\ IsDigit(entry)
    /\ DigitsFrom(entry, 1, 0) \notin ignore
    /\ ProcessMatches(in.procs[DigitsFrom(entry, 1, 0)], in.uid, in.xmlname, in.stagename)

\* Lines 1012-1077, after a walk that ended as w.
Listed(w, in) ==
    IF w.exc THEN PyOSError
    ELSE PyIntValue(IF \E i \in DOMAIN in.listing : EntryMatches(in.listing[i], w.ignore, in)
                    THEN 1 ELSE 0)

check_running(in) == Listed(Walk(in.pid, in.status, {}), in)

\* The status files get_ppid is called on.
StatusLines(ppid) == <<"Name: python", "Pid: 3", "PPid: " \o ppid, "Uid: 1000 1000">>
StatusFiles ==
    {MissingFile, FileOf(<<>>), FileOf(<<"Name: python">>), FileOf(<<"PPid:">>),
     FileOf(<<"PPid:2">>), FileOf(<<"PPid: x">>), FileOf(<<"PPid: -1">>)}
    \union {FileOf(StatusLines(ppid)) : ppid \in {"0", "1", "2", "17"}}

\* The process tables check_running is called in.  The caller is project.py
\* itself; one more process, the candidate, has any of CmdLines as its
\* command line (the words of cmd.split('\0'), the last one empty).
CallerUid == 1000
RootUid == 0
CmdLines ==
    {<<"python", "project.py", "--xml", "x.xml", "--stage", "s", "--submit", "">>,
     <<"python", "/bin/project.py", "--stage", "s", "--makeup", "--xml", "x.xml", "">>,
     <<"python", "project.py", "--xml", "x.xml", "--stage", "s", "--status", "">>,
     <<"python", "project.py", "--xml", "y.xml", "--stage", "s", "--submit", "">>,
     <<"python", "project.py", "--xml", "x.xml", "--stage", "s2", "--submit", "">>,
     <<"python", "project.py", "--xml", "--stage", "s", "x.xml", "--submit", "">>,
     <<"vi", "x.xml", "--xml", "--stage", "s", "--submit", "">>,
     <<"myproject.py", "--submit", "--xml", "x.xml", "--stage", "s", "">>,
     <<"python", "project.py", "--stage", "x.xml", "--xml", "s", "--submit", "">>,
     <<"">>}
Process(uid, words) == [gone |-> FALSE, uid |-> uid, readable |-> TRUE, words |-> words]
CallerProcess == Process(CallerUid, <<"python", "project.py", "--xml", "x.xml", "--stage", "s",
                                      "--submit", "">>)
Idle(uid) == Process(uid, <<"">>)
Candidates ==
    {Process(uid, words) : uid \in {CallerUid, RootUid}, words \in CmdLines}
    \union {[Process(CallerUid, words) EXCEPT !.gone = TRUE] : words \in CmdLines}
    \union {[Process(CallerUid, words) EXCEPT !.readable = FALSE] : words \in CmdLines}

\* The caller and its line of ancestors as /proc shows it: the caller's pid,
\* its real ancestors, and the status files.
Lineages ==
    {[pid |-> 3, ancestors |-> {1, 2},
      status |-> (2 :> FileOf(StatusLines("1")) @@ 3 :> FileOf(StatusLines("2")))],
     [pid |-> 3, ancestors |-> {1},
      status |-> (3 :> FileOf(StatusLines("1")))],
     [pid |-> 3, ancestors |-> {1, 2},
      status |-> (2 :> MissingFile @@ 3 :> FileOf(StatusLines("2")))],
     [pid |-> 3, ancestors |-> {1, 2},
      status |-> (2 :> FileOf(<<"Name: python">>) @@ 3 :> FileOf(StatusLines("2")))],
     [pid |-> 1, ancestors |-> {},
      status |-> (1 :> FileOf(StatusLines("0")))]}

\* The table with process c as pid cpid, next to the caller and idle processes.
ProcsWith(caller, cpid, c) ==
    [pid \in 1..4 |-> IF pid = caller THEN CallerProcess
                      ELSE IF pid = cpid THEN c
                      ELSE Idle(IF pid = 1 THEN RootUid ELSE CallerUid)]

CheckRunningInput(l, cpid, c) ==
    [fn |-> "check_running", pid |-> l.pid, ancestors |-> l.ancestors, status |-> l.status,
     uid |-> CallerUid, xmlname |-> "x.xml", stagename |-> "s",
     listing |-> <<"1", "2", "self", "3", "4", "cpuinfo">>,
     procs |-> ProcsWith(l.pid, cpid, c)]

\* A call get_ppid(pid) of a process whose status file is statf.
GetPpid(statf) ==
    /\ cr_in = Uncalled
    /\ cr_in' = [fn |-> "get_ppid", statf |-> statf]
    /\ cr_out' = get_ppid(statf)
    /\ UNCHANGED <<stepVars, geVars, piVars, cdVars, utVars, rsVars, spVars>>

\* A call check_running(xmlname, stagename).
CheckRunning(in) ==
    /\ cr_in = Uncalled
    /\ cr_in' = in
    /\ cr_out' = check_running(in)
    /\ UNCHANGED <<stepVars, geVars, piVars, cdVars, utVars, rsVars, spVars>>

NextProc ==
    \/ \E statf \in StatusFiles : GetPpid(statf)
    \/ \E l \in Lineages : \E cpid \in {1, 2, 4} : \E c \in Candidates :
          CheckRunning(CheckRunningInput(l, cpid, c))

\* The process calling get_ppid or check_running, once.
SpecProc == Init /\ [][NextProc]_vars

\* C13 (as claimed): get_ppid returns 0 and does not raise in case of any
\* difficulty, so that the ancestor walk of check_running ends without an
\* exception.
C13_PpidOrZero ==
    /\ (cr_in # Uncalled /\ cr_in.fn = "get_ppid") =>
          /\ cr_out.kind = "int"
          /\ ~cr_in.statf.exists => cr_out.val = 0
    /\ (cr_in # Uncalled /\ cr_in.fn = "check_running") => cr_out.kind = "int"

\* The command line the claim describes.
Follows(words, option, value) ==
    \E i \in 1..(Len(words) - 1) : words[i] = option /\ words[i + 1] = value
Has(words, option) == \E i \in DOMAIN words : words[i] = option
IsProjectPy(words) ==
    \E i \in DOMAIN words :
        Len(words[i]) >= 10 /\ SubSeq(words[i], Len(words[i]) - 9, Len(words[i])) = "project.py"
Running(p, in) ==
    /\ ~p.gone /\ p.readable /\ p.uid = in.uid
    /\ IsProjectPy(p.words)
    /\ Follows(p.words, "--xml", in.xmlname)
    /\ Follows(p.words, "--stage", in.stagename)
    /\ (Has(p.words, "--submit") \/ Has(p.words, "--makeup"))

\* C14 (as claimed): check_running returns 1 if and only if a process other
\* than the caller and its ancestors, owned by the caller's uid, runs
\* project.py with --xml xmlname, --stage stagename and --submit or --makeup;
\* it returns 0 otherwise.
C14_RunningIffOtherProcess ==
    (cr_in # Uncalled /\ cr_in.fn = "check_running" /\ cr_out.kind = "int") =>
        cr_out.val = IF \E pid \in DOMAIN cr_in.procs :
                            /\ pid \notin cr_in.ancestors \union {cr_in.pid}
                            /\ Running(cr_in.procs[pid], cr_in)
                     THEN 1 ELSE 0

(***************************************************************************)
(* parseInt (project_utilities.py lines 195-222).                          *)
(***************************************************************************)

PyList(seq) == [kind |-> "list", val |-> seq]
PyValueError == [kind |-> "ValueError", val |-> <<>>]

\* s.split(sep) for a separator of one character: the pieces between the
\* separators, empty ones included.
RECURSIVE SplitOnFrom(_, _, _, _, _)
SplitOnFrom(s, sep, i, piece, acc) ==
    IF i > Len(s) THEN Append(acc, piece)
    ELSE SplitOnFrom(s, sep, i + 1,
                     IF SubSeq(s, i, i) = sep THEN "" ELSE piece \o SubSeq(s, i, i),
                     IF SubSeq(s, i, i) = sep THEN Append(acc, piece) ELSE acc)
SplitOn(s, sep) == SplitOnFrom(s, sep, 1, "", <<>>)

\* Line 213: set(range(a, b + 1))
RangeBelow(a, b) == a..(b - 1)
RangeTo(a, b) == a..b

\* Lines 211-214: a hyphenated range; ok is FALSE when the token is none.
ParseLimits(limits) ==
    IF Len(limits) = 2 /\ IsDigit(Strip(limits[1])) /\ IsDigit(Strip(limits[2]))
    THEN [ok |-> TRUE, ints |-> RangeTo(PyInt(limits[1]).val, PyInt(limits[2]).val)]
    ELSE [ok |-> FALSE, ints |-> {}]

\* Lines 205-218: one token.
ParseToken(token) ==
    IF IsDigit(Strip(token)) THEN [ok |-> TRUE, ints |-> {PyInt(token).val}]
    ELSE ParseLimits(SplitOn(token, "-"))

\* Lines 201-218: the loop over the tokens; r is [ok, ints].
ParseStep(t, r) == [ok |-> r.ok /\ t.ok, ints |-> r.ints \union t.ints]
RECURSIVE ParseTokens(_, _, _)
ParseTokens(tokens, i, r) ==
    IF i > Len(tokens) \/ ~r.ok THEN r
    ELSE ParseTokens(tokens, i + 1, ParseStep(ParseToken(tokens[i]), r))

\* sorted(result)
RECURSIVE SortedFrom(_, _, _, _)
SortedFrom(S, i, hi, acc) ==
    IF i > hi THEN acc
    ELSE SortedFrom(S, i + 1, hi, IF i \in S THEN Append(acc, i) ELSE acc)
Smallest(S) == CHOOSE x \in S : \A y \in S : x <= y
Largest(S) == CHOOSE x \in S : \A y \in S : y <= x
Sorted(S) == IF S = {} THEN <<>> ELSE SortedFrom(S, Smallest(S), Largest(S), <<>>)

\* Lines 218-222
ParsedInts(r) == IF r.ok THEN PyList(Sorted(r.ints)) ELSE PyValueError

parseInt(s) == ParsedInts(ParseTokens(SplitOn(s, ","), 1, [ok |-> TRUE, ints |-> {}]))

\* The strings parseInt is called with: up to MaxTokens tokens with commas
\* between them.
MaxTokens == 3
IntTokens == {"1", "3", "12", " 2", "1-3", "3-1", "1 - 3", "", "x", "1-", "-3", "1-2-3"}
RECURSIVE CommaJoined(_, _)
CommaJoined(q, i) ==
    IF i > Len(q) THEN "" ELSE (IF i > 1 THEN "," ELSE "") \o q[i] \o CommaJoined(q, i + 1)
IntStrings == {CommaJoined(q, 1) : q \in UNION {[1..n -> IntTokens] : n \in 1..MaxTokens}}

\* A call parseInt(s).
ParseInt(s) ==
    /\ pi_in = Uncalled
    /\ pi_in' = [s |-> s]
    /\ pi_out' = parseInt(s)
    /\ UNCHANGED <<stepVars, geVars, crVars, cdVars, utVars, rsVars, spVars>>

NextParseInt == pi_in = Uncalled /\ \E s \in IntStrings : ParseInt(s)

\* The process calling parseInt, once.
SpecParseInt == Init /\ [][NextParseInt]_vars

\* What a token names: the integer of a string of digits, every integer from
\* a to b for 'a-b'; blanks(t) is the token as it is read (whole, or without
\* the blanks around it).
NumberNamed(d) == DigitsFrom(d, 1, 0)
IsRange(limits) == Len(limits) = 2 /\ IsDigit(limits[1]) /\ IsDigit(limits[2])
Unblanked(limits) == [i \in DOMAIN limits |-> Strip(limits[i])]
AsWritten(limits) == limits
NamesInts(t, limits) == IsDigit(t) \/ IsRange(limits)
IntsNamed(t, limits) ==
    IF IsDigit(t) THEN {NumberNamed(t)}
    ELSE {n \in 0..NumberNamed(limits[2]) : n >= NumberNamed(limits[1])}
Ascending(seq) == \A i \in 1..(Len(seq) - 1) : seq[i] < seq[i + 1]
Elements(seq) == {seq[i] : i \in DOMAIN seq}

\* C15 (as claimed): parseInt(s) returns the strictly ascending list of
\* exactly the integers the comma-separated tokens of s name, and raises
\* ValueError exactly when a token is neither a string of digits nor a range
\* 'a-b' of two such strings.
C15_ParsesDigitsAndRanges ==
    pi_in # Uncalled =>
        LET tokens == SplitOn(pi_in.s, ",")
            valid  == \A i \in DOMAIN tokens :
                          NamesInts(tokens[i], AsWritten(SplitOn(tokens[i], "-")))
        IN  IF valid
            THEN /\ pi_out.kind = "list"
                 /\ Ascending(pi_out.val)
                 /\ Elements(pi_out.val) =
                       UNION {IntsNamed(tokens[i], AsWritten(SplitOn(tokens[i], "-")))
                                : i \in DOMAIN tokens}
            ELSE pi_out = PyValueError

\* C15 (amended): the same, each string of digits being read without the
\* blanks around it.
C15_ParsesBlankPaddedDigitsAndRanges ==
    pi_in # Uncalled =>
        LET tokens == SplitOn(pi_in.s, ",")
            valid  == \A i \in DOMAIN tokens :
                          NamesInts(Strip(tokens[i]), Unblanked(SplitOn(tokens[i], "-")))
        IN  IF valid
            THEN /\ pi_out.kind = "list"
                 /\ Ascending(pi_out.val)
                 /\ Elements(pi_out.val) =
                       UNION {IntsNamed(Strip(tokens[i]), Unblanked(SplitOn(tokens[i], "-")))
                                : i \in DOMAIN tokens}
            ELSE pi_out = PyValueError

\* C15 witness: a range, a duplicate and a blank in one string.
C15_Witness ==
    /\ pi_in # Uncalled /\ pi_in.s = "1-3, 2,12"
    /\ pi_out = PyList(<<1, 2, 3, 12>>)

(***************************************************************************)
(* create_limited_dataset (project_utilities.py): a definition limited to  *)
(* one run and a list of subruns.  SAM is a catalogue of files, each in a  *)
(* definition and of a run and a subrun; it answers countFiles by reading  *)
(* the dimension text.                                                     *)
(***************************************************************************)

\* "%d" % n
DecimalDigits == <<"0", "1", "2", "3", "4", "5", "6", "7", "8", "9">>
RECURSIVE Decimal(_)
Decimal(n) ==
    IF n < 10 THEN DecimalDigits[n + 1]
    ELSE Decimal(n \div 10) \o DecimalDigits[(n % 10) + 1]
FormatD(n) == IF n < 0 THEN "-" \o Decimal(0 - n) ELSE Decimal(n)

\* Line 247: "%d.%d" % (run, subrun).
SubrunRun(run, subrun) == FormatD(subrun) \o "." \o FormatD(run)
RunSubrun(run, subrun) == FormatD(run) \o "." \o FormatD(subrun)

\* Lines 243-247: the comma-separated run.subrun pairs.
RECURSIVE RunSubrunDim(_, _, _, _)
RunSubrunDim(run, subruns, i, acc) ==
    IF i > Len(subruns) THEN acc
    ELSE RunSubrunDim(run, subruns, i + 1,
                      (IF acc # "" THEN acc \o "," ELSE acc) \o RunSubrun(run, subruns[i]))

\* Line 251.
LimitedDim(defname, run, subruns) ==
    "defname: " \o defname \o " and run_number " \o RunSubrunDim(run, subruns, 1, "")

\* SAM's reading of 'defname: D and run_number r.s,r.s,...': the files of D
\* whose run and subrun are one of the pairs.
PairOf(words) ==
    IF Len(words) = 2 /\ PyInt(words[1]).ok /\ PyInt(words[2]).ok
    THEN {<<PyInt(words[1]).val, PyInt(words[2]).val>>} ELSE {}
PairsOf(pairs) == UNION {PairOf(SplitOn(pairs[k], ".")) : k \in 1..Len(pairs)}
FilesOf(defname, pairs, catalog) ==
    {f \in catalog : f.def = defname /\ <<f.run, f.subrun>> \in pairs}
FilesAt(dim, n, catalog) ==
    IF ~StartsWith(dim, "defname: ") \/ n < 0 THEN {}
    ELSE FilesOf(SubSeq(dim, 10, n), PairsOf(SplitOn(SliceFrom(dim, n + 16), ",")), catalog)
countFiles(dim, catalog) == Cardinality(FilesAt(dim, Find(dim, " and run_number "), catalog))

\* Line 265: defname + '_' + str(uuid.uuid4()).
NewDefname(defname, uuid) == defname \o "_" \o uuid

\* What a call leaves: the value returned and the createDefinition calls made.
Outcome(ret, created) == [ret |-> ret, created |-> created]

\* Lines 255-273.
CreateCounted(in, dim, nfiles) ==
    IF nfiles = 0 THEN Outcome(PyStr(""), <<>>)
    ELSE Outcome(PyStr(NewDefname(in.defname, in.uuid)),
                 <<[name |-> NewDefname(in.defname, in.uuid), dim |-> dim]>>)
CreateWith(in, dim) == CreateCounted(in, dim, countFiles(dim, in.catalog))

create_limited_dataset(in) ==
    IF Len(in.subruns) = 0 THEN Outcome(PyStr(""), <<>>)
    ELSE CreateWith(in, LimitedDim(in.defname, in.run, in.subruns))

\* Inputs.
MaxSubruns == 2
SubrunValues == {1, 2, 10}
RunValues == {1, 2}
LimitedDefnames == {"a", "b"}
Uuids == {"0f", "7c"}
CatFile(def, run, subrun) == [def |-> def, run |-> run, subrun |-> subrun]
Catalogs ==
    {{}, {CatFile("a", 2, 10)}, {CatFile("a", 1, 1), CatFile("b", 1, 1)},
     {CatFile("a", 1, 1), CatFile("a", 1, 2), CatFile("a", 2, 10), CatFile("b", 1, 1)}}
SubrunLists == UNION {[1..n -> SubrunValues] : n \in 0..MaxSubruns}
LimitedInput(defname, run, subruns, catalog, uuid) ==
    [defname |-> defname, run |-> run, subruns |-> subruns, catalog |-> catalog, uuid |-> uuid]

\* A call create_limited_dataset(defname, run, subruns).
CreateLimitedDataset(in) ==
    /\ cd_in = Uncalled
    /\ cd_in' = in
    /\ cd_out' = create_limited_dataset(in)
    /\ UNCHANGED <<stepVars, geVars, crVars, piVars, utVars, rsVars, spVars>>

NextLimited ==
    /\ cd_in = Uncalled
    /\ \E defname \in LimitedDefnames : \E run \in RunValues : \E subruns \in SubrunLists :
          \E catalog \in Catalogs : \E uuid \in Uuids :
             CreateLimitedDataset(LimitedInput(defname, run, subruns, catalog, uuid))

\* One call of create_limited_dataset.
SpecLimited == Init /\ [][NextLimited]_vars

\* The dimension the limited definition is to have, written with the
\* numbers' decimal text, and the files it selects.
RECURSIVE PairsText(_, _, _)
PairsText(run, subruns, i) ==
    IF i > Len(subruns) THEN ""
    ELSE (IF i > 1 THEN "," ELSE "") \o ToString(run) \o "." \o ToString(subruns[i])
         \o PairsText(run, subruns, i + 1)
DimensionOf(in) ==
    "defname: " \o in.defname \o " and run_number " \o PairsText(in.run, in.subruns, 1)
Selected(in) ==
    {f \in in.catalog :
        f.def = in.defname /\ f.run = in.run /\ \E k \in 1..Len(in.subruns) : f.subrun = in.subruns[k]}
DefinitionsOf(catalog) == {f.def : f \in catalog}

\* C16: create_limited_dataset returns '' and creates no definition when
\* subruns is empty or the run and subruns select no file of the definition;
\* otherwise it creates exactly one definition, of a name no definition had,
\* with the dimension 'defname: <defname> and run_number <run>.<s1>,...',
\* and returns that name.
C16_LimitedDefinitionIffFiles ==
    cd_in # Uncalled =>
        IF Len(cd_in.subruns) = 0 \/ Selected(cd_in) = {}
        THEN cd_out = Outcome(PyStr(""), <<>>)
        ELSE /\ Len(cd_out.created) = 1
             /\ cd_out.created[1].dim = DimensionOf(cd_in)
             /\ cd_out.created[1].name \notin DefinitionsOf(cd_in.catalog)
             /\ cd_out.ret = PyStr(cd_out.created[1].name)

\* A call with two subruns, one of which has a file, has created a definition.
C16_Witness ==
    /\ cd_in # Uncalled
    /\ cd_in.subruns = <<2, 10>>
    /\ cd_in.run = 1
    /\ Cardinality(Selected(cd_in)) = 1
    /\ Len(cd_out.created) = 1
    /\ cd_out.created[1].dim = "defname: a and run_number 1.2,1.10"

(***************************************************************************)
(* use_token_auth (project_utilities.py): the process environment and the  *)
(* files that exist, before and after the call.                            *)
(***************************************************************************)

\* os.path.join(a, b)
PathJoin(a, b) ==
    IF StartsWith(b, "/") THEN b
    ELSE IF a = "" \/ SubSeq(a, Len(a), Len(a)) = "/" THEN a \o b
    ELSE a \o "/" \o b

\* os.environ.get(name, default)
EnvironGet(environ, name, default) ==
    IF name \in DOMAIN environ THEN environ[name] ELSE default

\* Lines 66-67: del os.environ['BEARER_TOKEN'], if set.
Cleansed(environ) == [v \in DOMAIN environ \ {"BEARER_TOKEN"} |-> environ[v]]

\* Line 77: os.environ[name] = value.
EnvironSet(environ, name, value) ==
    [v \in DOMAIN environ \union {name} |-> IF v = name THEN value ELSE environ[v]]

\* Line 74: 'bt_project_py_%d_%d' % (uid, pid).
TokenFileName(uid, pid) == "bt_project_py_" \o FormatD(uid) \o "_" \o FormatD(pid)

\* Lines 71-75.
TokenFilePath(environ, uid, pid) ==
    PathJoin(EnvironGet(environ, "TMPDIR", "/tmp"), TokenFileName(uid, pid))

\* Lines 62-81: the environment and the files the call leaves.  No statement
\* of the function touches a file.
use_token_auth(in) ==
    [environ |-> EnvironSet(Cleansed(in.environ), "BEARER_TOKEN_FILE",
                            TokenFilePath(Cleansed(in.environ), in.uid, in.pid)),
     files |-> in.files]

\* Inputs.
TokenEnvValues ==
    [TMPDIR |-> {"/scratch", "/var/tmp"}, BEARER_TOKEN |-> {"eyJ"},
     BEARER_TOKEN_FILE |-> {"/run/user/1000/bt_u1000"}]
TokenEnvirons ==
    UNION {{e \in [D -> UNION {TokenEnvValues[v] : v \in D}] :
                \A v \in D : e[v] \in TokenEnvValues[v]} :
           D \in SUBSET {"TMPDIR", "BEARER_TOKEN", "BEARER_TOKEN_FILE"}}
TokenUids == {0, 1000}
TokenPids == {1, 4321}
TokenFiles ==
    SUBSET {"/tmp/bt_project_py_1000_4321", "/scratch/bt_project_py_1000_4321",
            "/var/tmp/bt_project_py_0_1", "/run/user/1000/bt_u1000"}
TokenAuthInput(environ, uid, pid, files) ==
    [environ |-> environ, uid |-> uid, pid |-> pid, files |-> files]

\* A call use_token_auth().
UseTokenAuth(in) ==
    /\ ut_in = Uncalled
    /\ ut_in' = in
    /\ ut_out' = use_token_auth(in)
    /\ UNCHANGED <<stepVars, geVars, crVars, piVars, cdVars, rsVars, spVars>>

NextTokenAuth ==
    /\ ut_in = Uncalled
    /\ \E environ \in TokenEnvirons : \E uid \in TokenUids : \E pid \in TokenPids :
          \E files \in TokenFiles : UseTokenAuth(TokenAuthInput(environ, uid, pid, files))

\* One call of use_token_auth.
SpecTokenAuth == Init /\ [][NextTokenAuth]_vars

\* <$TMPDIR or /tmp>/bt_project_py_<uid>_<pid>
ClaimedTokenFile(in) ==
    (IF "TMPDIR" \in DOMAIN in.environ THEN in.environ["TMPDIR"] ELSE "/tmp")
    \o "/bt_project_py_" \o ToString(in.uid) \o "_" \o ToString(in.pid)

\* C17: after use_token_auth returns, BEARER_TOKEN is not set,
\* BEARER_TOKEN_FILE is <$TMPDIR or /tmp>/bt_project_py_<uid>_<pid>, and no
\* file exists at that path.
C17_TokenFileSetAndAbsent ==
    ut_in # Uncalled =>
        /\ "BEARER_TOKEN" \notin DOMAIN ut_out.environ
        /\ "BEARER_TOKEN_FILE" \in DOMAIN ut_out.environ
        /\ ut_out.environ["BEARER_TOKEN_FILE"] = ClaimedTokenFile(ut_in)
        /\ ClaimedTokenFile(ut_in) \notin ut_out.files

(***************************************************************************)
(* rootstat.py: the branch tables of analyze (one per file, with --all)    *)
(* and of main (all files).  A file is the list of the subbranches of its  *)
(* Events tree, in the order the two loops of analyze visit them; each     *)
(* carries whether its branch is of class art::Wrapper<T>, its name, its   *)
(* byte counts and its own subbranches.  A dictionary is a function from   *)
(* its keys.                                                               *)
(***************************************************************************)

\* d[k] = v
Put(d, k, v) == [x \in DOMAIN d \union {k} |-> IF x = k THEN v ELSE d[x]]

\* The order of str: character by character, a prefix first.
AsciiOrder == " .0123456789ABCDEFGHIJKLMNOPQRSTUVWXYZ_abcdefghijklmnopqrstuvwxyz"
CharRank(c) == Find(AsciiOrder, c)
RECURSIVE StrLessFrom(_, _, _)
StrLessFrom(s, t, i) ==
    IF i > Len(t) THEN FALSE
    ELSE IF i > Len(s) THEN TRUE
    ELSE IF SubSeq(s, i, i) = SubSeq(t, i, i) THEN StrLessFrom(s, t, i + 1)
    ELSE CharRank(SubSeq(s, i, i)) < CharRank(SubSeq(t, i, i))
StrLess(s, t) == StrLessFrom(s, t, 1)

\* The order of the keys of branch_tuples: numbers for --s1 and --s2, names
\* otherwise.
KeyLess(a, b, sorttype) == IF sorttype \in {1, 2} THEN a < b ELSE StrLess(a, b)

\* sorted(branch_tuples.keys())
RECURSIVE SortedKeys(_, _)
SortedKeys(S, sorttype) ==
    IF S = {} THEN <<>>
    ELSE LET m == CHOOSE x \in S : \A y \in S \ {x} : KeyLess(x, y, sorttype)
         IN  <<m>> \o SortedKeys(S \ {m}, sorttype)

\* Lines 148-151, 179-182, 386-389: float(ntot) / float(nzip), or 0.
Comp(ntot, nzip) ==
    IF nzip # 0 THEN [num |-> ntot, den |-> nzip] ELSE [num |-> 0, den |-> 1]
Unbound == [num |-> 0, den |-> 0]

\* Lines 152-158, 183-189, 390-396.
BranchKey(sorttype, ntot, nzip, name) ==
    IF sorttype = 1 THEN ntot ELSE IF sorttype = 2 THEN nzip ELSE name

\* A row of the table: (ntot, nzip, comp, name).
Row(ntot, nzip, comp, name) == [ntot |-> ntot, nzip |-> nzip, comp |-> comp, name |-> name]

\* Lines 205-211, 402-408: the rows printed, in the order of the sorted keys.
TableRows(tuples, keys) == [i \in 1..Len(keys) |-> tuples[keys[i]]]
Printed(tuples, sorttype) == TableRows(tuples, SortedKeys(DOMAIN tuples, sorttype))

\* Lines 164-168, 196-200, 237-241: gbranches[name] += [ntot, nzip].
Remembered(gbranches, name, ntot, nzip) ==
    Put(gbranches, name,
        IF name \in DOMAIN gbranches
        THEN <<gbranches[name][1] + ntot, gbranches[name][2] + nzip>>
        ELSE <<ntot, nzip>>)

\* Lines 175-200: one subsubbranch.  The row is stored only under the else
\* of the sort type (line 190), with the comp last computed in this call.
SubsubStep(b, t, doprint, sorttype) ==
    IF t.exc # "" THEN t
    ELSE IF sorttype \notin {1, 2} /\ ~doprint /\ t.comp = Unbound
    THEN [t EXCEPT !.exc = "UnboundLocalError"]
    ELSE [t EXCEPT
            !.comp = IF doprint THEN Comp(b.ntot, b.nzip) ELSE t.comp,
            !.tuples = IF sorttype \notin {1, 2}
                       THEN Put(t.tuples, b.name,
                                Row(b.ntot, b.nzip,
                                    IF doprint THEN Comp(b.ntot, b.nzip) ELSE t.comp, b.name))
                       ELSE t.tuples,
            !.gbranches = Remembered(t.gbranches, b.name, b.ntot, b.nzip)]

RECURSIVE SubsubLoop(_, _, _, _, _)
SubsubLoop(subs, i, t, doprint, sorttype) ==
    IF i > Len(subs) THEN t
    ELSE SubsubLoop(subs, i + 1, SubsubStep(subs[i], t, doprint, sorttype), doprint, sorttype)

\* name[-4:] == '.obj'
EndsObj(name) == Len(name) >= 4 /\ SubSeq(name, Len(name) - 3, Len(name)) = ".obj"

\* Lines 143-168: the '.obj' subbranch itself.
ObjStep(b, t, doprint, sorttype) ==
    [t EXCEPT
        !.ntotall = t.ntotall + b.ntot,
        !.nzipall = t.nzipall + b.nzip,
        !.comp = IF doprint THEN Comp(b.ntot, b.nzip) ELSE t.comp,
        !.tuples = IF doprint
                   THEN Put(t.tuples, BranchKey(sorttype, b.ntot, b.nzip, b.name),
                            Row(b.ntot, b.nzip, Comp(b.ntot, b.nzip), b.name))
                   ELSE t.tuples,
        !.gbranches = Remembered(t.gbranches, b.name, b.ntot, b.nzip)]

\* Lines 128-200: one subbranch of the Events tree.
BranchStep(b, t, level, doprint, sorttype) ==
    IF t.exc # "" \/ ~b.wrapped \/ ~EndsObj(b.name) THEN t
    ELSE IF level > 1
    THEN SubsubLoop(b.subs, 1, ObjStep(b, t, doprint, sorttype), doprint, sorttype)
    ELSE ObjStep(b, t, doprint, sorttype)

RECURSIVE BranchLoop(_, _, _, _, _, _)
BranchLoop(file, i, t, level, doprint, sorttype) ==
    IF i > Len(file) THEN t
    ELSE BranchLoop(file, i + 1, BranchStep(file[i], t, level, doprint, sorttype),
                    level, doprint, sorttype)

\* Lines 115-123: the locals of analyze at the start of the loop.
AnalyzeStart(gbranches) ==
    [tuples |-> EmptyMap, gbranches |-> gbranches, ntotall |-> 0, nzipall |-> 0,
     comp |-> Unbound, exc |-> ""]

\* Lines 204-241: the table printed and the totals remembered.
AnalyzeEnd(t, doprint, sorttype) ==
    IF t.exc # "" THEN [exc |-> t.exc, table |-> <<>>, gbranches |-> t.gbranches]
    ELSE [exc |-> "",
          table |-> IF doprint THEN Printed(t.tuples, sorttype) ELSE <<>>,
          gbranches |-> Remembered(t.gbranches, "All branches", t.ntotall, t.nzipall)]

\* analyze(root, level, gtrees, gbranches, doprint, sorttype)
analyze(file, level, gbranches, doprint, sorttype) ==
    AnalyzeEnd(BranchLoop(file, 1, AnalyzeStart(gbranches), level, doprint, sorttype),
               doprint, sorttype)

\* main, lines 382-397: branch_tuples of the summary.
RECURSIVE SummaryTuples(_, _, _, _, _)
SummaryTuples(gbranches, keys, i, tuples, sorttype) ==
    IF i > Len(keys) THEN tuples
    ELSE SummaryTuples(gbranches, keys, i + 1,
            IF keys[i] # "All branches"
            THEN Put(tuples,
                     BranchKey(sorttype, gbranches[keys[i]][1], gbranches[keys[i]][2], keys[i]),
                     Row(gbranches[keys[i]][1], gbranches[keys[i]][2],
                         Comp(gbranches[keys[i]][1], gbranches[keys[i]][2]), keys[i]))
            ELSE tuples,
            sorttype)
Summary(gbranches, sorttype) ==
    Printed(SummaryTuples(gbranches, SortedKeys(DOMAIN gbranches, 3), 1, EmptyMap, sorttype),
            sorttype)

\* main, lines 343-408: the files in turn, then the summary.
MainAfter(in, i, a, tables) ==
    [in |-> in, i |-> i, gbranches |-> a.gbranches, exc |-> a.exc,
     tables |-> Append(tables, a.table)]
RECURSIVE MainLoop(_)
MainLoop(m) ==
    IF m.exc # "" THEN [kind |-> "exception", exc |-> m.exc, tables |-> m.tables, summary |-> <<>>]
    ELSE IF m.i > Len(m.in.files)
    THEN [kind |-> "done", exc |-> "", tables |-> m.tables,
          summary |-> Summary(m.gbranches, m.in.sorttype)]
    ELSE MainLoop(MainAfter(m.in, m.i + 1,
                            analyze(m.in.files[m.i], m.in.level, m.gbranches,
                                    m.in.all = 1, m.in.sorttype),
                            m.tables))
rootstat(in) ==
    MainLoop([in |-> in, i |-> 1, gbranches |-> EmptyMap, exc |-> "", tables |-> <<>>])

\* Inputs.
MaxBranches == 2
Leaf(name, ntot, nzip) == [name |-> name, ntot |-> ntot, nzip |-> nzip]
Branch(wrapped, name, ntot, nzip, subs) ==
    [wrapped |-> wrapped, name |-> name, ntot |-> ntot, nzip |-> nzip, subs |-> subs]
RootBranches ==
    {Branch(TRUE, "a.obj", 20, 10, <<Leaf("a.obj.x", 5, 2)>>),
     Branch(TRUE, "b.obj", 20, 5, <<>>),
     Branch(TRUE, "c.obj", 30, 10, <<>>),
     Branch(TRUE, "Z.obj", 8, 0, <<>>),
     Branch(TRUE, "a.present", 1, 1, <<>>),
     Branch(FALSE, "e.obj", 3, 3, <<>>)}
DistinctNames(f) == \A i, j \in DOMAIN f : f[i].name = f[j].name => i = j
RootFiles == UNION {{f \in [1..n -> RootBranches] : DistinctNames(f)} : n \in 0..MaxBranches}
OtherFiles == {<<Branch(TRUE, "a.obj", 10, 0, <<Leaf("a.obj.x", 1, 1)>>)>>,
               <<Branch(TRUE, "d.obj", 40, 20, <<>>)>>}
RootstatInputs ==
    {[files |-> fs, level |-> level, sorttype |-> sorttype, all |-> all] :
        fs \in {<<f>> : f \in RootFiles} \union (RootFiles \X OtherFiles),
        level \in {1, 2}, sorttype \in {1, 2, 3}, all \in {0, 1}}

\* A run of rootstat.py on readable files.
Rootstat(in) ==
    /\ rs_in = Uncalled
    /\ rs_in' = in
    /\ rs_out' = rootstat(in)
    /\ UNCHANGED <<stepVars, geVars, crVars, piVars, cdVars, utVars, spVars>>

NextRootstat == rs_in = Uncalled /\ \E in \in RootstatInputs : Rootstat(in)

\* One run of rootstat.py.
SpecRootstat == Init /\ [][NextRootstat]_vars

\* The names of the branches analysed in a file at a level.
AnalysedIn(f, level) ==
    UNION {{f[i].name} \union
           (IF level > 1 THEN {f[i].subs[k].name : k \in DOMAIN f[i].subs} ELSE {}) :
           i \in {j \in DOMAIN f : f[j].wrapped /\ EndsObj(f[j].name)}}
AnalysedAll(files, level) == UNION {AnalysedIn(files[k], level) : k \in DOMAIN files}

\* A table has one row for each of the names, in ascending order of the key.
OneRowEach(table, names) ==
    /\ {table[i].name : i \in DOMAIN table} = names
    /\ Len(table) = Cardinality(names)
AscendingBy(table, sorttype) ==
    \A i, j \in DOMAIN table :
        i < j => ~KeyLess(BranchKey(sorttype, table[j].ntot, table[j].nzip, table[j].name),
                          BranchKey(sorttype, table[i].ntot, table[i].nzip, table[i].name),
                          sorttype)

\* C18: the branch table rootstat prints for all files, and with --all the
\* table of each file, has one row for every analysed branch, in ascending
\* order of the selected sort key; branches of equal byte counts all appear.
C18_OneRowPerBranchSorted ==
    rs_in # Uncalled =>
        /\ rs_out.kind = "done"
        /\ OneRowEach(rs_out.summary, AnalysedAll(rs_in.files, rs_in.level))
        /\ AscendingBy(rs_out.summary, rs_in.sorttype)
        /\ rs_in.all = 1 =>
              \A k \in DOMAIN rs_in.files :
                  /\ OneRowEach(rs_out.tables[k], AnalysedIn(rs_in.files[k], rs_in.level))
                  /\ AscendingBy(rs_out.tables[k], rs_in.sorttype)

(***************************************************************************)
(* start_project (project_utilities.py).  The call reads SAM and, with     *)
(* filelistdef, evaluates the definition with listFiles, on the process's  *)
(* samcache; it leaves the list of the calls it made that change SAM.      *)
(***************************************************************************)

\* s.createDefinition(name, dim, ...) and s.startProject(prjname, defname=...).
CreateCall(name, dim) == [call |-> "createDefinition", name |-> name, dim |-> dim]
StartCall(prjname, defname) == [call |-> "startProject", name |-> prjname, dim |-> defname]

\* How a call ends, with the samcache and the set objects it leaves.
SpReturned(ret, calls, c) ==
    [kind |-> "returned", ret |-> ret, exc |-> NoExc, calls |-> calls,
     cache |-> c.cache, heap |-> c.heap]
SpRaised(c) ==
    [kind |-> "raised", ret |-> 0, exc |-> c.exc, calls |-> <<>>,
     cache |-> c.cache, heap |-> c.heap]

\* Lines 307-309: the project name; makeProjectName builds one from the
\* definition name.
ProjectName(in) ==
    IF in.default_prjname = "" THEN "user_" \o in.defname \o "_20261101" ELSE in.default_prjname

\* Lines 319-323: nf, from listFiles or from s.countFiles.
Listed2(r) ==
    [exc |-> r.exc, nf |-> IF r.exc = NoExc THEN Cardinality(r.heap[r.ret]) ELSE 0,
     files |-> IF r.exc = NoExc THEN r.heap[r.ret] ELSE {},
     cache |-> r.cache, heap |-> r.heap]
Counted(defname, cache, hp) ==
    [exc |-> IF defname \in DefNames THEN NoExc ELSE ExcSam,
     nf |-> IF defname \in DefNames THEN Cardinality(DefFiles(defname)) ELSE 0,
     files |-> {}, cache |-> cache, heap |-> hp]
FileCount(in, cache, hp) ==
    IF in.filelistdef THEN Listed2(listFiles("defname: " \o in.defname, cache, hp, in.order))
    ELSE Counted(in.defname, cache, hp)

\* makeFileListDefinition(dim), lines 908-942: the files listFiles returns
\* become the dimension 'file_name f1, f2, ...' ('file_id 0' when there are
\* none) of a definition of a new name.
ListDim(files) == IF files = {} THEN [file_id |-> {0}] ELSE [file_name |-> files]
FileListName(uuid) == "user_filelist_" \o uuid
FileListMade(in, l) ==
    [exc |-> l.exc, name |-> FileListName(in.uuid),
     calls |-> IF l.exc = NoExc THEN <<CreateCall(FileListName(in.uuid), ListDim(l.files))>>
               ELSE <<>>,
     cache |-> l.cache, heap |-> l.heap]
makeFileListDefinition(dim, in, c) ==
    FileListMade(in, Listed2(listFiles(dim, c.cache, c.heap, in.order)))

\* Lines 355-370: the project is started on the definition, and 0 returned.
SpStart(in, defname, calls, c) ==
    SpReturned(0, Append(calls, StartCall(ProjectName(in),
                                          IF in.force_snapshot THEN defname \o ":force"
                                          ELSE defname)), c)

\* Lines 340, 351: the project is started on the file list definition.
SpFileList(in, m) == IF m.exc # NoExc THEN SpRaised(m) ELSE SpStart(in, m.name, m.calls, m)

\* Line 331 and line 338.
LimitDef(in) == ProjectName(in) \o "_limit_" \o FormatD(in.max_files)
WithLimit(in) == "defname: " \o in.defname \o " with limit " \o FormatD(in.max_files)

\* Lines 331-346: the limited definition.
SpLimited(in, c) ==
    IF LimitDef(in) \in in.exists /\ ~in.filelistdef THEN SpStart(in, LimitDef(in), <<>>, c)
    ELSE IF in.filelistdef THEN SpFileList(in, makeFileListDefinition(WithLimit(in), in, c))
    ELSE SpStart(in, LimitDef(in), <<CreateCall(LimitDef(in), WithLimit(in))>>, c)

\* Lines 325-351.
SpAfterCount(in, c) ==
    IF c.exc # NoExc THEN SpRaised(c)
    ELSE IF c.nf = 0 THEN SpReturned(1, <<>>, c)
    ELSE IF in.max_files > 0 /\ c.nf > in.max_files THEN SpLimited(in, c)
    ELSE IF in.filelistdef
    THEN SpFileList(in, makeFileListDefinition("defname: " \o in.defname, in, c))
    ELSE SpStart(in, in.defname, <<>>, c)

start_project(in, cache, hp) == SpAfterCount(in, FileCount(in, cache, hp))

\* Inputs.
StartDefnames == DefNames \union {"none"}
StartPrjnames == {"", "prj"}
StartMaxFiles == {0, 1}
Preexisting == {"prj_limit_1"}
NoOrder == [i \in 1..Cardinality(Files) |-> i]
StartInputs(exists, uuid) ==
    {[defname |-> d, default_prjname |-> p, max_files |-> m, force_snapshot |-> f,
      filelistdef |-> l, order |-> o, exists |-> exists, uuid |-> uuid] :
        d \in StartDefnames, p \in StartPrjnames, m \in StartMaxFiles, f \in BOOLEAN,
        l \in BOOLEAN, o \in PopOrders}
Relevant(in) == (in.filelistdef /\ in.max_files > 0) \/ in.order = NoOrder

\* The definitions SAM holds after a call.
Created(calls) == {calls[i].name : i \in {j \in DOMAIN calls : calls[j].call = "createDefinition"}}

\* The process after a call start_project(...) that ended as r and left c.
AfterStartProject(in, r, c, first) ==
    /\ sp_in' = in
    /\ sp_out' = [kind |-> r.kind, ret |-> r.ret, exc |-> r.exc, calls |-> r.calls,
                  first |-> first, exists |-> in.exists \union Created(r.calls)]
    /\ samcache' = c.cache
    /\ heap' = c.heap
    /\ UNCHANGED <<ncalls, lf_dim, lf_exc, lf_ret, lf_queries, samlog, returned>>
    /\ UNCHANGED <<tkVars, ifVars, paVars, wsVars, geVars, crVars, piVars, cdVars, utVars, rsVars>>
StartProjectRan(in, r, first) == AfterStartProject(in, r, Compact(r.cache, r.heap), first)

\* Whether the process may call start_project: it has not yet, or once.
MayStart == IF sp_in = Uncalled THEN TRUE ELSE sp_out.first

\* A call start_project(defname, default_prjname, max_files, force_snapshot,
\* filelistdef), the first of the process or the second.
StartProject(in) ==
    /\ MayStart
    /\ Relevant(in)
    /\ StartProjectRan(in, start_project(in, samcache, heap), sp_in = Uncalled)

NextStart ==
    /\ MayStart
    /\ \E in \in (IF sp_in = Uncalled THEN StartInputs(Preexisting, "0f")
                  ELSE StartInputs(sp_out.exists, "7c")) : StartProject(in)

\* The process calling start_project, twice.
SpecStart == Init /\ [][NextStart]_vars

\* The calls of a kind among the calls a run made.
CallsOf(calls, kind) == {i \in DOMAIN calls : calls[i].call = kind}

\* C19: when the input definition matches zero files start_project returns 1
\* and has neither started a project nor created a definition; in every
\* other run that does not raise it returns 0 and has called startProject
\* exactly once, after every createDefinition.
C19_StartsIffFiles ==
    (sp_in # Uncalled /\ sp_out.kind = "returned") =>
        IF DefFiles(sp_in.defname) = {}
        THEN sp_out.ret = 1 /\ sp_out.calls = <<>>
        ELSE /\ sp_out.ret = 0
             /\ Cardinality(CallsOf(sp_out.calls, "startProject")) = 1
             /\ \A i \in CallsOf(sp_out.calls, "createDefinition") :
                   \A j \in CallsOf(sp_out.calls, "startProject") : i < j

(***************************************************************************)
(* C20: the isparentof:( and ischildof:( groups of tokenizeRPN.            *)
(***************************************************************************)

\* Whether dim is one group 'kind( content )' and nothing else, and its
\* content: the text between the opening symbol and the closing parenthesis,
\* holding no parenthesis and no 'with limit' clause.
GroupContent(kind, dim) == SubSeq(dim, Len(kind) + 2, Len(dim) - 1)
IsGroup(kind, dim) ==
    /\ StartsWith(dim, kind \o "(")
    /\ Len(dim) >= Len(kind) + 2
    /\ SubSeq(dim, Len(dim), Len(dim)) = ")"
    /\ Find(GroupContent(kind, dim), "(") < 0
    /\ Find(GroupContent(kind, dim), ")") < 0
    /\ Find(dim, "with limit") < 0
HasOperator(content) == \E k \in DOMAIN Split(content) : Split(content)[k] \in {"or", "minus"}
ParseError(kind) == "RuntimeError('" \o kind \o " parse error')"

\* What the claim has tokenizeRPN do with the groups of one kind.
GroupsOf(kind) ==
    (tk_out # NotCalled /\ IsGroup(kind, tk_dim)) =>
        /\ (Len(Split(GroupContent(kind, tk_dim))) = 1 /\ ~HasOperator(GroupContent(kind, tk_dim)))
              => tk_out = [rpn |-> <<kind \o "( " \o Split(GroupContent(kind, tk_dim))[1] \o " )">>,
                           exc |-> NoExc]
        /\ HasOperator(GroupContent(kind, tk_dim)) =>
              tk_out = [rpn |-> <<>>, exc |-> ParseError(kind)]

\* C20: tokenizeRPN makes of an 'ischildof:(' group, as of an 'isparentof:('
\* group, the single item 'ischildof:( X )' when its content is the single
\* dimension X, and rejects the group with RuntimeError('ischildof: parse
\* error') (RuntimeError('isparentof: parse error') for isparentof:) when its
\* content holds an 'or' or a 'minus', with no other exception.
C20_ChildOfLikeParentOf == GroupsOf("ischildof:") /\ GroupsOf("isparentof:")

(***************************************************************************)
(* wait_for_stat (project_utilities.py lines 102-118), step by step: the   *)
(* access check, the listing of the parent directory, the sleep.  The file *)
(* system changes beside it: the path may become readable, or stop being   *)
(* readable, at any moment.  larbatch_posix.access answers whether the     *)
(* path is readable and larbatch_posix.listdir lists a directory; both     *)
(* return.                                                                 *)
(***************************************************************************)

\* Line 104.
Tries == 60

\* s.rfind('/'): the 0-based index of the last '/', -1 when there is none.
RECURSIVE RFindSlash(_, _)
RFindSlash(s, i) ==
    IF i = 0 THEN -1 ELSE IF SubSeq(s, i, i) = "/" THEN i - 1 ELSE RFindSlash(s, i - 1)

\* s.rstrip('/')
RECURSIVE RStripSlash(_)
RStripSlash(s) ==
    IF Len(s) > 0 /\ SubSeq(s, Len(s), Len(s)) = "/" THEN RStripSlash(SliceTo(s, Len(s) - 1))
    ELSE s

\* os.path.dirname(path): the text up to the last '/', without its trailing
\* slashes unless it is made of slashes only.
DirnameOf(head) == IF RStripSlash(head) = "" THEN head ELSE RStripSlash(head)
Dirname(path) == DirnameOf(SliceTo(path, RFindSlash(path, Len(path)) + 1))

\* Lines 104-105: the call begins with ntry = 60, at the loop test.
WaitForStat(path) ==
    /\ ws_pc = "idle"
    /\ ws_pc' = "check"
    /\ ws_path' = path
    /\ ws_ntry' = Tries
    /\ UNCHANGED <<ws_checks, ws_hits, ws_lists, ws_dir, ws_ret, ws_readable>>
    /\ UNCHANGED <<lfVars, tkVars, ifVars, paVars, geVars, crVars, piVars, cdVars, utVars,
                   rsVars, spVars>>

\* Lines 106-108: larbatch_posix.access(path, os.R_OK); return 0 when it
\* holds, 'Waiting ...' when not.
Access ==
    /\ ws_pc = "check"
    /\ ws_checks' = ws_checks + 1
    /\ ws_hits' = IF ws_readable THEN ws_hits + 1 ELSE ws_hits
    /\ ws_pc' = IF ws_readable THEN "done" ELSE "list"
    /\ ws_ret' = 0
    /\ UNCHANGED <<ws_path, ws_ntry, ws_lists, ws_dir, ws_readable>>
    /\ UNCHANGED <<lfVars, tkVars, ifVars, paVars, geVars, crVars, piVars, cdVars, utVars,
                   rsVars, spVars>>

\* Line 112: larbatch_posix.listdir(os.path.dirname(path)).
ListedNever(lists) == lists
ListedOnce(lists) == lists + 1
Listdir ==
    /\ ws_pc = "list"
    /\ ws_lists' = ListedOnce(ws_lists)
    /\ ws_dir' = Dirname(ws_path)
    /\ ws_pc' = "sleep"
    /\ UNCHANGED <<ws_path, ws_ntry, ws_checks, ws_hits, ws_ret, ws_readable>>
    /\ UNCHANGED <<lfVars, tkVars, ifVars, paVars, geVars, crVars, piVars, cdVars, utVars,
                   rsVars, spVars>>

\* Lines 113-118 and 105: the sleep ends, ntry is decremented, and the loop
\* test 'ntry > 0' leads to the next check or to 'return 1'.
Sleep ==
    /\ ws_pc = "sleep"
    /\ ws_ntry' = ws_ntry - 1
    /\ ws_pc' = IF ws_ntry - 1 > 0 THEN "check" ELSE "done"
    /\ ws_ret' = IF ws_ntry - 1 > 0 THEN ws_ret ELSE 1
    /\ UNCHANGED <<ws_path, ws_checks, ws_hits, ws_lists, ws_dir, ws_readable>>
    /\ UNCHANGED <<lfVars, tkVars, ifVars, paVars, geVars, crVars, piVars, cdVars, utVars,
                   rsVars, spVars>>

\* The file system: the path becomes readable, or stops being readable.
Appears ==
    /\ ~ws_readable
    /\ ws_readable' = TRUE
    /\ UNCHANGED <<ws_pc, ws_path, ws_ntry, ws_checks, ws_hits, ws_lists, ws_dir, ws_ret>>
    /\ UNCHANGED <<lfVars, tkVars, ifVars, paVars, geVars, crVars, piVars, cdVars, utVars,
                   rsVars, spVars>>
Vanishes ==
    /\ ws_readable
    /\ ws_readable' = FALSE
    /\ UNCHANGED <<ws_pc, ws_path, ws_ntry, ws_checks, ws_hits, ws_lists, ws_dir, ws_ret>>
    /\ UNCHANGED <<lfVars, tkVars, ifVars, paVars, geVars, crVars, piVars, cdVars, utVars,
                   rsVars, spVars>>

\* Inputs.
WaitPaths == {"/pnfs/uboone/scratch/a.root", "a.root", "/a.root", "out//a.root"}

\* The steps of the call, which the interpreter takes one after the other.
WaitStep == Access \/ Listdir \/ Sleep

NextWait ==
    \/ \E path \in WaitPaths : WaitForStat(path)
    \/ Access
    \/ Listdir
    \/ Sleep
    \/ Appears
    \/ Vanishes

\* The process calling wait_for_stat, and the process that goes on running
\* the call it began; nothing is assumed of the file system.
SpecWait == Init /\ [][NextWait]_vars
SpecWaitFair == SpecWait /\ WF_vars(WaitStep)

\* The parent directory of the model's paths.
ParentOf(path) ==
    CASE path = "/pnfs/uboone/scratch/a.root" -> "/pnfs/uboone/scratch"
      [] path = "a.root" -> ""
      [] path = "/a.root" -> "/"
      [] OTHER -> "out"

\* While the call runs no check has found the path readable, each
\* unsuccessful check is followed by one listing of the parent directory,
\* and there are at most 60 checks; it returns 0 at its first successful
\* check, and 1 after 60 unsuccessful checks and 60 listings.
WaitCounts ==
    /\ ws_checks <= Tries
    /\ ws_lists > 0 => ws_dir = ParentOf(ws_path)
    /\ ws_pc \in {"check", "idle"} => (ws_hits = 0 /\ ws_lists = ws_checks)
    /\ ws_pc = "list" => (ws_hits = 0 /\ ws_lists = ws_checks - 1)
    /\ ws_pc = "sleep" => (ws_hits = 0 /\ ws_lists = ws_checks)
    /\ ws_pc = "done" =>
          \/ ws_ret = 0 /\ ws_hits = 1 /\ ws_lists = ws_checks - 1
          \/ ws_ret = 1 /\ ws_hits = 0 /\ ws_checks = Tries /\ ws_lists = Tries

\* C21: wait_for_stat always terminates: it returns 0 at the first of at most
\* 60 checks at which the path is readable, and returns 1 after exactly 60
\* unsuccessful checks, listing the parent directory once after each
\* unsuccessful check.
C21_WaitForStatEnds == []WaitCounts /\ (ws_pc = "check" ~> ws_pc = "done")

\* A call has returned 1 after 60 unsuccessful checks and 60 listings.
C21_Witness == ws_pc = "done" /\ ws_ret = 1 /\ ws_checks = 60 /\ ws_lists = 60 /\ ws_dir = "out"

(***************************************************************************)
(* C22: listFiles calls in which SAM raises.                               *)
(***************************************************************************)

\* The step is a listFiles call that SAM's exception ended.
FailedCall == ncalls' = ncalls + 1 /\ lf_exc' = ExcSam

\* The dimension the call's result would be cached under (line 900).
CacheKey(dim, e) == IF e.exc = NoExc THEN e.dim ELSE dim

\* C22: when a SAM call raises during listFiles(d) the exception reaches the
\* caller, samcache gets no entry for d (as given or as expanded) nor for the
\* dimension SAM failed on, and every entry samcache had before the call is
\* still there with the same files.
C22_FailedCallLeavesCache ==
    [][FailedCall =>
          /\ lf_dim' \notin DOMAIN samcache'
          /\ CacheKey(lf_dim', ExpandAll(lf_dim')) \notin DOMAIN samcache'
          /\ lf_queries' # <<>> => Last(lf_queries') \notin DOMAIN samcache'
          /\ \A k \in DOMAIN samcache :
                k \in DOMAIN samcache' /\ heap'[samcache'[k]] = heap[samcache[k]]]_vars

\* A second call has failed on the dimension 'x', which SAM rejects, on a
\* cache the first call filled.
C22_Witness ==
    /\ ncalls = 2
    /\ lf_exc = ExcSam
    /\ lf_dim = "x or a"
    /\ lf_queries = <<"x">>
    /\ "b" \in DOMAIN samcache
=============================================================================
